---- MODULE Spec2Model ----
(***************************************************************************)
(* A model of the gesture engine's event-generation pipeline:              *)
(*   gesture_engine/pipeline.py   HandTracker, AdaptiveThresholds,         *)
(*                                GesturePipeline                          *)
(*   gesture_engine/sequences.py  SequenceDetector                         *)
(*   gesture_engine/gestures.py   GestureDefinition, GestureRegistry       *)
(*   gesture_engine/server.py     capture_loop (the frame orchestrator)    *)
(*                                                                         *)
(* Time is counted in ticks of 50 ms (0.5 s = 10 ticks).  Confidences and  *)
(* thresholds are counted in thousandths (0.6 = 600).  A hand is the       *)
(* record of what the code reads of its 21x3 landmark array: the centroid  *)
(* (on a line, in tenths), the set of extended fingers, whether thumb tip  *)
(* and index tip touch, and whether every coordinate is finite.            *)
(***************************************************************************)
EXTENDS Integers, Sequences, FiniteSets, TLC

VARIABLES
    now,            \* time.monotonic() as read by the last frame / call
    trk_next_id,    \* HandTracker._next_id
    trk_tracked,    \* HandTracker._tracked: id -> [landmarks, last_seen]
    trk_in,         \* the hands passed to the last HandTracker.update
    trk_out,        \* the list returned by the last HandTracker.update
    trk_issued,     \* every id handed out so far, in order of assignment
    pipe_history,           \* GesturePipeline._history: hand id -> recent poses
    pipe_last_triggered,    \* GesturePipeline._last_triggered: hand id -> [gesture, time]
    pipe_thresholds,        \* AdaptiveThresholds._thresholds: pose -> threshold
    pipe_callbacks,         \* GesturePipeline._callbacks, each "returns" or "raises"
    pipe_total_frames,      \* GesturePipeline._total_frames
    pipe_total_gestures,    \* GesturePipeline._total_gestures
    pipe_events,            \* the events created by the last process_frame
    pipe_result,            \* how the last process_frame ended: "returned" or "raised"
    pipe_emitted,           \* <<hand id, pose>> -> times of its last two emissions
    pipe_smoothed,          \* hand id -> what _get_smoothed_gesture last returned for it
    pipe_hold,              \* the hand held in front of the camera from some frame on:
                            \* [active, hand, frames, emitted], emitted telling that
                            \* an event for its pose was emitted since
    pipe_fresh,             \* a pipeline constructed at the last reset() and shown the
                            \* frames processed since: [active, fed, trk, next, history,
                            \* last_triggered, thresholds, events]
    seq_sequences,          \* SequenceDetector._sequences
    seq_history,            \* SequenceDetector._history: hand -> <<[gesture, time], ...>>
    seq_last_triggered,     \* SequenceDetector._last_triggered: <<hand, name>> -> time
    seq_last_match_duration,    \* SequenceDetector._last_match_duration
    seq_fed,                \* the last call, when a feed: [gesture, hand, time, appended]
    seq_events,             \* the list returned by the last feed
    seq_emitted,            \* <<hand, name>> -> times of its last two events since reset()
    loop_last_gestures,     \* capture_loop's last_gestures: hand index -> [gesture, time]
    loop_total_gestures,    \* state.total_gestures
    loop_broadcast,         \* the messages broadcast by the last frame of capture_loop
    loop_suppressed,        \* the hand indices the last frame's cooldown check stopped
    loop_calls,             \* the updates the last frame made: <<[sink, hand], ...>>,
                            \* hand the hand index, or the pairs given to the bimanual detector
    loop_hands,             \* the hands the detector found in the last frame
    traj_paths,             \* TrajectoryTracker._paths: hand -> <<[time, point], ...>>
    traj_still_counts,      \* TrajectoryTracker._still_counts
    canvas_history,         \* DrawingCanvas._history, the type of each command
    canvas_shake_positions, \* DrawingCanvas._shake_positions: <<[x, time], ...>>
    canvas_shake_cooldown,  \* DrawingCanvas._shake_cooldown
    bi_history,             \* BimanualDetector._history, the time of each entry
    thr_base,               \* an AdaptiveThresholds on its own: base_threshold
    thr_thresholds,         \* an AdaptiveThresholds on its own: _thresholds
    traj_last_match_time,   \* TrajectoryTracker._last_match_time
    traj_call,              \* the last call of a TrajectoryTracker on its own
    traj_emitted,           \* hand -> times of its last two TrajectoryEvents
    bim_history,            \* a BimanualDetector on its own: _history, <<[distance, time], ...>>
    bim_last_distance,      \* its _last_distance, NoDistance for None
    bim_cooldowns,          \* its _cooldowns: gesture -> time
    bim_call,               \* its last call, n the number of calls so far
    bim_emitted,            \* gesture -> times of the last two events of that name
    cv_history,             \* a DrawingCanvas on its own: _history
    cv_max_history,         \* its _max_history
    cv_current_color,       \* its _current_color
    cv_last_point,          \* its _last_point, NoPoint for None
    cv_point_buffer,        \* its _point_buffer
    cv_drawing,             \* its _drawing
    cv_shake_positions,     \* its _shake_positions: <<[x, time], ...>>
    cv_shake_cooldown,      \* its _shake_cooldown
    cv_call,                \* its last call, n the number of calls so far
    cv_live,                \* what a client that applied every command sent shows
    cv_clears,              \* the times of the last two clear commands update returned
    traj_templates,         \* TrajectoryTracker._templates: the templates registered
    traj_recording,         \* its _recording: <<>> for None, <<name>> for a name
    traj_recording_points,  \* its _recording_points
    rec_call,               \* its last call: active tells that start_recording was called
                            \* and stop_recording not yet, since counts the updates since
    dtw_s,                  \* the point sequences last handed to _dtw_distance_fast,
    dtw_t,                  \* its window,
    dtw_window,
    dtw_forward,            \* and what it returned for (s, t) and for (t, s)
    dtw_backward,
    reg_gestures,           \* a GestureRegistry on its own: its _gestures
    reg_call,               \* its last call, and what a match returned
    met_lock,               \* a MetricsCollector on its own: the holder of _lock, 0 when free
    met_gesture_counts,     \* its _gesture_counts
    met_frames_total,       \* its _frames_total
    met_hands_total,        \* its _hands_total
    met_rate,               \* its _hand_detection_rate, in thousandths
    met_hist_lock,          \* the holder of _latency._lock, 0 when free
    met_hist,               \* _latency: [bucket_counts, count, sum]
    met_pc,                 \* thread -> where it is in its call, "idle" between calls
    met_arg,                \* thread -> the arguments of its call, <<>> between calls
    met_tmp,                \* thread -> the value it has read for an assignment and not
                            \* yet written back, 0 otherwise
    met_calls,              \* the calls made: [gestures, frames, hands]
    bc_pc,          \* where capture_loop is: "read", "emit", "send" or "stopped"
    bc_left,        \* the messages the current frame has still to broadcast
    bc_frames,      \* the frames capture_loop has read
    bc_clients,     \* state.clients
    bc_size,        \* len(state.clients) when broadcast's for loop began
    bc_visited,     \* the clients broadcast's for loop has been through
    bc_cur,         \* the client whose send_text broadcast awaits, 0 when none
    bc_dead,        \* broadcast's dead
    bc_mutated,     \* state.clients was changed since broadcast's for loop began
    bc_stalled      \* the clients whose peer has stopped reading: a send to one
                    \* of them does not complete

trackerVars == <<trk_next_id, trk_tracked, trk_in, trk_out, trk_issued>>

seqVars == <<seq_sequences, seq_history, seq_last_triggered, seq_last_match_duration,
             seq_fed, seq_events, seq_emitted>>

loopVars == <<loop_last_gestures, loop_total_gestures, loop_broadcast, loop_suppressed,
              loop_calls, loop_hands, traj_paths, traj_still_counts, canvas_history,
              canvas_shake_positions, canvas_shake_cooldown, bi_history>>

thrVars == <<thr_base, thr_thresholds>>

\* the objects that the pipeline, the sequence detector and capture_loop do not hold
bcVars == <<bc_pc, bc_left, bc_frames, bc_clients, bc_size, bc_visited, bc_cur, bc_dead,
            bc_mutated, bc_stalled>>

tjVars == <<traj_last_match_time, traj_call, traj_emitted>>

bimVars == <<bim_history, bim_last_distance, bim_cooldowns, bim_call, bim_emitted>>

\* the objects modelled on their own besides the thresholds, the broadcasts
\* and the trajectory tracker
cvVars == <<cv_history, cv_max_history, cv_current_color, cv_last_point, cv_point_buffer,
            cv_drawing, cv_shake_positions, cv_shake_cooldown, cv_call, cv_live, cv_clears>>

metVars == <<met_lock, met_gesture_counts, met_frames_total, met_hands_total, met_rate,
             met_hist_lock, met_hist, met_pc, met_arg, met_tmp, met_calls>>

recVars == <<traj_templates, traj_recording, traj_recording_points, rec_call>>

regVars == <<reg_gestures, reg_call>>

dtwVars == <<dtw_s, dtw_t, dtw_window, dtw_forward, dtw_backward>>

soloVars == <<bimVars, cvVars, metVars, recVars, regVars, dtwVars>>

auxVars == <<thrVars, bcVars, tjVars, soloVars>>

pipeVars == <<pipe_history, pipe_last_triggered, pipe_thresholds, pipe_callbacks,
              pipe_total_frames, pipe_total_gestures, pipe_events, pipe_result,
              pipe_emitted, pipe_smoothed, pipe_fresh, pipe_hold>>

-----------------------------------------------------------------------------
(* Bounds of the model *)

MaxIds == 3         \* HandTracker.update is not called once this many ids are out
MaxTime == 14       \* HandTracker.update is not called after this tick
MaxFrameTime == 16  \* process_frame is not called after this tick
MaxFrames == 9      \* process_frame is not called once _total_frames reaches this
MaxCallbacks == 1   \* on_gesture is not called once this many callbacks are registered
MaxSequences == 7   \* register is not called once this many templates are registered
SeqMaxTime == 49    \* feed is not called with a timestamp after this tick
MaxLoopTime == 12   \* capture_loop reads no frame after this tick
MaxTrajTime == 45   \* TrajectoryTracker.update is not called after this tick
MaxPoint == 1       \* a hand's centroid moves no further than this from where its path began
MaxBcFrames == 3    \* capture_loop reads no frame once it has read this many
MaxMessages == 2    \* a frame broadcasts at most this many messages
MaxClients == 2     \* at most this many websocket clients exist
MaxBiTime == 26     \* BimanualDetector.update is not called after this tick
MaxCanvasCalls == 5 \* a DrawingCanvas that draws is not called once it was called this many times
MaxShakeTime == 50  \* a DrawingCanvas shown an open hand is not called after this tick
MaxShakeHolds == 1  \* an open hand stays where it was at most this many times among the
                    \* positions the canvas keeps
MaxPrefixTime == 3  \* a hand is held from this tick on at the latest
MaxHoldTime == 20   \* and no frame is shown after this one
MaxDtwLen == 3      \* the point sequences compared by DTW are at most this long
MaxRegistered == 3  \* a GestureRegistry on its own holds at most this many poses
MaxRecTime == 8     \* a TrajectoryTracker that records is not updated after this tick
MaxThreads == 2     \* this many threads call the MetricsCollector
MaxMetricCalls == 3 \* the MetricsCollector is not called once it was called this many times
MaxBiCalls == 7     \* a BimanualDetector is not called once it was called this many times

(* Program constants *)

TrackerTimeout == 10    \* HandTracker(timeout=0.5), in ticks
MaxDistance == 3        \* HandTracker(max_distance=0.3), in tenths
MaxHands == 2           \* HandDetector(max_hands=2)
SmoothingWindow == 5    \* GesturePipeline(smoothing_window=5)
CooldownSeconds == 10   \* GesturePipeline(cooldown_seconds=0.5), in ticks
BaseThreshold == 600    \* GesturePipeline(min_confidence=0.6), the adaptive base
MinThreshold == 400     \* AdaptiveThresholds(min_threshold=0.4)
MaxThreshold == 950     \* AdaptiveThresholds(max_threshold=0.95)
AdjustmentRate == 10    \* AdaptiveThresholds(adjustment_rate=0.01)
SeqMaxHistory == 20     \* SequenceDetector(max_history=20)
SeqCooldown == 20       \* SequenceDetector._cooldown = 1.0, in ticks
LoopCooldown == 6       \* capture_loop: cooldown = 0.3, in ticks
TrajWindow == 40        \* TrajectoryTracker(window_seconds=2.0), in ticks
MinPathLength == 1      \* TrajectoryTracker(min_path_length=0.08), in steps of 0.08
StillFrames == 5        \* TrajectoryTracker(still_frames=5)
MinPathPoints == 10     \* "len(path) > 10"
TrajCooldown == 20      \* TrajectoryTracker._cooldown = 1.0, in ticks
CanvasMaxHistory == 10000   \* DrawingCanvas(max_history=10000)
ShakeMaxLen == 15       \* DrawingCanvas._shake_positions = deque(maxlen=15)
ShakeMinLen == 8        \* _detect_shake: len(self._shake_positions) < 8
ShakeMinChanges == 4    \* _detect_shake: changes >= 4
ShakeMaxSpan == 30      \* _detect_shake: time_span < 1.5, in ticks
ShakePause == 40        \* self._shake_cooldown = now + 2.0, in ticks
Smoothing == 3          \* DrawingCanvas(smoothing=3)
BiHistorySize == 30     \* BimanualDetector(history_size=30)
ZoomThreshold == 30     \* BimanualDetector(zoom_threshold=0.03), in thousandths
ClapDistance == 120     \* BimanualDetector(clap_distance=0.12), in thousandths
ClapVelocity == 300     \* BimanualDetector(clap_velocity=0.3), in thousandths a second
ClapRing == 5           \* "len(self._history) < 5", "self._history[-5]"
ClapCooldown == 20      \* _check_cooldown("clap", now, 1.0), in ticks
ZoomCooldown == 2       \* _check_cooldown("pinch_zoom", now, 0.1), in ticks
TicksPerSecond == 20    \* a tick is 50 ms

Fingers == 1..5         \* thumb, index, middle, ring, pinky

\* centroids of the hands fed to the model (tenths): two within max_distance
\* of each other, two beyond it
Pos == {0, 2, 4}

-----------------------------------------------------------------------------
(* Hands *)

FiniteHand(c, ext, pinch) == [c |-> c, ext |-> ext, pinch |-> pinch, finite |-> TRUE]

\* A landmark array holding NaN: every comparison on it is false, so no finger
\* reads as extended and no centroid distance is below anything.
NaNHand == [c |-> 0, ext |-> {}, pinch |-> FALSE, finite |-> FALSE]

Abs(x) == IF x < 0 THEN -x ELSE x

\* float(np.linalg.norm(det_c - trk_c)) for two hands
Dist(a, b) == Abs(a.c - b.c)

\* dist < best_dist : best.track = 0 stands for best_dist = inf
DistLess(a, b, best) ==
    /\ a.finite /\ b.finite
    /\ (best.track = 0 \/ Dist(a, b) < best.dist)

-----------------------------------------------------------------------------
(* GestureDefinition, GestureRegistry, GestureClassifier *)

\* GestureRegistry.with_defaults(): the poses in registration order; fingers is
\* the required state of thumb, index, middle, ring, pinky
DefaultGestures == <<
    [name |-> "open_hand", fingers |-> <<"extended", "extended", "extended", "extended", "extended">>,
     min_confidence |-> 600, constrained |-> FALSE],
    [name |-> "fist", fingers |-> <<"curled", "curled", "curled", "curled", "curled">>,
     min_confidence |-> 600, constrained |-> FALSE],
    [name |-> "thumbs_up", fingers |-> <<"extended", "curled", "curled", "curled", "curled">>,
     min_confidence |-> 600, constrained |-> FALSE],
    [name |-> "peace", fingers |-> <<"curled", "extended", "extended", "curled", "curled">>,
     min_confidence |-> 600, constrained |-> FALSE],
    [name |-> "pointing", fingers |-> <<"curled", "extended", "curled", "curled", "curled">>,
     min_confidence |-> 600, constrained |-> FALSE],
    [name |-> "rock_on", fingers |-> <<"curled", "extended", "curled", "curled", "extended">>,
     min_confidence |-> 600, constrained |-> FALSE],
    [name |-> "ok_sign", fingers |-> <<"extended", "extended", "extended", "extended", "extended">>,
     min_confidence |-> 500, constrained |-> TRUE] >>

GestureNames == {DefaultGestures[i].name : i \in 1..Len(DefaultGestures)}

\* GestureDefinition._get_finger_states: tip_dist > pip_dist, false on NaN
FingerStateOf(hand, f) ==
    IF hand.finite /\ f \in hand.ext THEN "extended" ELSE "curled"

\* GestureDefinition._check_constraints, in thousandths: the only constraint of
\* the default registry is ok_sign's distance(thumb tip, index tip) <= 0.15
\* A loaded pose carries the type of its constraint in kind: a type that is
\* neither "distance" nor "angle" appends no score, and the score of no
\* scores is 1.0.
ConstraintScore(g, hand) ==
    IF ~g.constrained THEN 1000
    ELSE IF "kind" \in DOMAIN g /\ g.kind \notin {"distance", "angle"} THEN 1000
    ELSE IF hand.finite /\ hand.pinch THEN 1000 ELSE 0

\* GestureDefinition.match: the confidence, in thousandths
MatchConfidence(g, hand) ==
    LET checked == {f \in Fingers : g.fingers[f] # "any"}
        matches == {f \in checked : FingerStateOf(hand, f) = g.fingers[f]}
        finger_confidence ==
            IF checked = {} THEN 1000
            ELSE (1000 * Cardinality(matches)) \div Cardinality(checked)
    IN  IF g.constrained
        THEN (700 * finger_confidence + 300 * ConstraintScore(g, hand)) \div 1000
        ELSE finger_confidence

NoMatch == [name |-> "none", confidence |-> 0]

\* a loop that takes a pose as confident as the best so far
RECURSIVE RegistryMatchLastFrom(_, _, _, _)
RegistryMatchLastFrom(gestures, hand, i, best) ==
    IF i > Len(gestures) THEN best
    ELSE IF /\ MatchConfidence(gestures[i], hand) >= gestures[i].min_confidence
            /\ (best = NoMatch \/ MatchConfidence(gestures[i], hand) >= best.confidence)
         THEN RegistryMatchLastFrom(gestures, hand, i + 1,
                [name |-> gestures[i].name,
                 confidence |-> MatchConfidence(gestures[i], hand)])
         ELSE RegistryMatchLastFrom(gestures, hand, i + 1, best)

\* GestureRegistry.match: the loop over self._gestures, best so far in `best`
RECURSIVE RegistryMatchFrom(_, _, _, _)
RegistryMatchFrom(gestures, hand, i, best) ==
    IF i > Len(gestures) THEN best
    ELSE IF /\ MatchConfidence(gestures[i], hand) >= gestures[i].min_confidence
            /\ (best = NoMatch \/ MatchConfidence(gestures[i], hand) > best.confidence)
         THEN RegistryMatchFrom(gestures, hand, i + 1,
                [name |-> gestures[i].name,
                 confidence |-> MatchConfidence(gestures[i], hand)])
         ELSE RegistryMatchFrom(gestures, hand, i + 1, best)

\* GestureClassifier.classify with no learned model: (name, confidence) or NoMatch
Classify(hand) == RegistryMatchFrom(DefaultGestures, hand, 1, NoMatch)

-----------------------------------------------------------------------------
(* HandTracker *)

\* list(self._tracked.keys()): the dict keeps insertion order, and keys are
\* inserted in increasing id order
RECURSIVE SortedIds(_)
SortedIds(S) ==
    IF S = {} THEN <<>>
    ELSE LET m == CHOOSE x \in S : \A y \in S : x <= y
         IN  <<m>> \o SortedIds(S \ {m})

\* the stale test with its operands swapped
StaleIdsSwapped(trk, t) == {hid \in DOMAIN trk : trk[hid].last_seen - t > TrackerTimeout}

StaleIds(trk, t) == {hid \in DOMAIN trk : t - trk[hid].last_seen > TrackerTimeout}

PruneStale(trk, t) == [hid \in (DOMAIN trk \ StaleIds(trk, t)) |-> trk[hid]]

\* the inner loop over tracked_centroids: the closest unused track, first wins ties
RECURSIVE BestTrack(_, _, _, _, _, _)
BestTrack(det, ids, base, used, k, best) ==
    IF k > Len(ids) THEN best
    ELSE IF k \in used THEN BestTrack(det, ids, base, used, k + 1, best)
    ELSE IF DistLess(det, base[ids[k]].landmarks, best)
         THEN BestTrack(det, ids, base, used, k + 1,
                        [track |-> k, dist |-> Dist(det, base[ids[k]].landmarks)])
         ELSE BestTrack(det, ids, base, used, k + 1, best)

\* "if best_track >= 0 and best_dist < self._max_distance": detection i takes
\* over the track; acc = [trk, used, dets, matched]
MatchDetection(hands, ids, t, i, acc, best) ==
    IF best.track > 0 /\ best.dist < MaxDistance
    THEN [trk |-> [acc.trk EXCEPT ![ids[best.track]] =
                     [landmarks |-> hands[i], last_seen |-> t]],
          used |-> acc.used \cup {best.track},
          dets |-> acc.dets \cup {i},
          matched |-> Append(acc.matched, [id |-> ids[best.track], lm |-> hands[i]])]
    ELSE acc

\* the outer loop over new_centroids
RECURSIVE GreedyMatch(_, _, _, _, _, _)
GreedyMatch(hands, ids, base, t, i, acc) ==
    IF i > Len(hands) THEN acc
    ELSE GreedyMatch(hands, ids, base, t, i + 1,
            MatchDetection(hands, ids, t, i, acc,
                BestTrack(hands[i], ids, base, acc.used, 1, [track |-> 0, dist |-> 0])))

\* an id allocator that hands out the smallest id no live track holds
NewIdSmallestFree(trk, next) == CHOOSE x \in 0..next : x \notin DOMAIN trk /\ \A y \in 0..(x - 1) : y \in DOMAIN trk

\* hid = self._next_id
NewId(trk, next) == next

\* self._tracked[hid] = TrackedHand(...); acc = [trk, next, matched, fresh]
CreateTrack(lm, t, acc, new) ==
    [trk |-> [hid \in DOMAIN acc.trk \cup {new} |->
                 IF hid = new THEN [landmarks |-> lm, last_seen |-> t] ELSE acc.trk[hid]],
     next |-> acc.next + 1,
     matched |-> Append(acc.matched, [id |-> new, lm |-> lm]),
     fresh |-> Append(acc.fresh, new)]

\* "Create new tracks for unmatched detections"
RECURSIVE CreateTracks(_, _, _, _, _)
CreateTracks(hands, dets, t, i, acc) ==
    IF i > Len(hands) THEN acc
    ELSE IF i \in dets THEN CreateTracks(hands, dets, t, i + 1, acc)
    ELSE CreateTracks(hands, dets, t, i + 1,
            CreateTrack(hands[i], t, acc, NewId(acc.trk, acc.next)))

\* HandTracker.update(hands, now) -> [trk, next, matched, fresh]; fresh lists the
\* ids created by the call
TrackerUpdate(trk, next, hands, t) ==
    LET pruned == PruneStale(trk, t)
    IN  IF hands = <<>>
        THEN [trk |-> pruned, next |-> next, matched |-> <<>>, fresh |-> <<>>]
        ELSE LET ids == SortedIds(DOMAIN pruned)
                 g == GreedyMatch(hands, ids, pruned, t, 1,
                        [trk |-> pruned, used |-> {}, dets |-> {}, matched |-> <<>>])
             IN  CreateTracks(hands, g.dets, t, 1,
                        [trk |-> g.trk, next |-> next, matched |-> g.matched,
                         fresh |-> <<>>])

-----------------------------------------------------------------------------
(* AdaptiveThresholds *)

Min(a, b) == IF a < b THEN a ELSE b
Max(a, b) == IF a > b THEN a ELSE b

\* AdaptiveThresholds.get_threshold of an object built with base_threshold = base
GetThresholdFrom(thr, gesture, base) ==
    IF gesture \in DOMAIN thr THEN thr[gesture] ELSE base

\* AdaptiveThresholds.record of an object built with base_threshold = base: the
\* new _thresholds.  (_history and _confusion_counts are written and never
\* read; they are left out.)
AdaptiveRecordFrom(thr, gesture, was_stable, base) ==
    [g \in DOMAIN thr \cup {gesture} |->
        IF g # gesture THEN thr[g]
        ELSE IF ~was_stable
             THEN Min(MaxThreshold, GetThresholdFrom(thr, gesture, base) + AdjustmentRate)
             ELSE Max(MinThreshold,
                      GetThresholdFrom(thr, gesture, base) - AdjustmentRate \div 10)]

\* the pipeline's AdaptiveThresholds(base_threshold=min_confidence)
GetThreshold(thr, gesture) == GetThresholdFrom(thr, gesture, BaseThreshold)

AdaptiveRecord(thr, gesture, was_stable) ==
    AdaptiveRecordFrom(thr, gesture, was_stable, BaseThreshold)

-----------------------------------------------------------------------------
(* GesturePipeline *)

\* deque(maxlen=n).append(x)
DequeAppend(d, x, maxlen) ==
    IF Len(d) >= maxlen THEN Append(Tail(d), x) ELSE Append(d, x)

CountOf(history, g) == Cardinality({i \in 1..Len(history) : history[i] = g})

\* max(counts, key=counts.get): the first-seen pose among those counted most
MostCounted(history) ==
    LET top == {i \in 1..Len(history) :
                  \A j \in 1..Len(history) :
                      CountOf(history, history[j]) <= CountOf(history, history[i])}
    IN  history[CHOOSE i \in top : \A j \in top : i <= j]

\* a smoother that wants every entry of the window to agree
SmoothedGestureUnanimous(history) ==
    IF Len(history) = 0 \/ Len(history) < Max(1, SmoothingWindow \div 2) THEN "none"
    ELSE IF CountOf(history, MostCounted(history)) = Len(history)
         THEN MostCounted(history)
         ELSE "none"

\* GesturePipeline._get_smoothed_gesture on one hand's window; "none" for None
SmoothedGesture(history) ==
    IF Len(history) = 0 \/ Len(history) < Max(1, SmoothingWindow \div 2) THEN "none"
    ELSE IF CountOf(history, MostCounted(history)) > Len(history) \div 2
         THEN MostCounted(history)
         ELSE "none"

HistoryOf(hist, hand_id) == IF hand_id \in DOMAIN hist THEN hist[hand_id] ELSE <<>>

Put(f, k, v) == [x \in DOMAIN f \cup {k} |-> IF x = k THEN v ELSE f[x]]

\* "Cooldown check": last and last[0] == smoothed and (now - last[1]) < cooldown
InCooldown(last_triggered, hand_id, smoothed, t) ==
    /\ hand_id \in DOMAIN last_triggered
    /\ last_triggered[hand_id].gesture = smoothed
    /\ t - last_triggered[hand_id].time < CooldownSeconds

\* the times of the last two emissions of one <<hand id, pose>>
NoteEmission(emitted, key, t) ==
    Put(emitted, key, IF key \in DOMAIN emitted THEN <<emitted[key][2], t>> ELSE <<-1, t>>)

\* "Fire event" to the end of the loop body.  st is the pipeline state carried
\* through the frame: [history, last_triggered, thresholds, total_gestures,
\* events, raised, emitted, smoothed].  A callback that raises ends process_frame there.
FireEvent(st, index, hand_id, lm, result, smoothed, t, callbacks) ==
    [st EXCEPT
        !.last_triggered = Put(st.last_triggered, hand_id, [gesture |-> smoothed, time |-> t]),
        !.total_gestures = st.total_gestures + 1,
        !.events = Append(st.events,
                     [gesture |-> smoothed, confidence |-> result.confidence,
                      hand_index |-> index, hand_id |-> hand_id, landmarks |-> lm,
                      timestamp |-> t]),
        !.emitted = NoteEmission(st.emitted, <<hand_id, smoothed>>, t),
        !.raised = \E i \in 1..Len(callbacks) : callbacks[i] = "raises"]

\* from "was_stable = ..." to the cooldown check; st.history holds the new pose
AfterSmoothing(st, index, hand_id, lm, result, smoothed, t, callbacks) ==
    IF smoothed = "none"
    THEN [st EXCEPT !.thresholds = AdaptiveRecord(st.thresholds, result.name, FALSE)]
    ELSE IF InCooldown(st.last_triggered, hand_id, smoothed, t)
    THEN [st EXCEPT !.thresholds =
                AdaptiveRecord(st.thresholds, result.name, smoothed = result.name)]
    ELSE FireEvent([st EXCEPT !.thresholds =
                        AdaptiveRecord(st.thresholds, result.name, smoothed = result.name)],
                   index, hand_id, lm, result, smoothed, t, callbacks)

\* "Temporal smoothing": the pose enters the hand's window
SmoothHand(st, index, hand_id, lm, result, t, callbacks) ==
    AfterSmoothing(
        [st EXCEPT !.history =
            Put(st.history, hand_id,
                DequeAppend(HistoryOf(st.history, hand_id), result.name, SmoothingWindow)),
                   !.smoothed =
            Put(st.smoothed, hand_id,
                SmoothedGesture(DequeAppend(HistoryOf(st.history, hand_id), result.name,
                                            SmoothingWindow)))],
        index, hand_id, lm, result,
        SmoothedGesture(DequeAppend(HistoryOf(st.history, hand_id), result.name,
                                    SmoothingWindow)),
        t, callbacks)

\* the body of "for hand_id, landmarks in tracked" up to the threshold test
ProcessHand(st, index, hand_id, lm, result, t, callbacks) ==
    IF result = NoMatch THEN st
    ELSE IF result.confidence < GetThreshold(st.thresholds, result.name) THEN st
    ELSE SmoothHand(st, index, hand_id, lm, result, t, callbacks)

\* the loop "for hand_id, landmarks in tracked"; hand_index is
\* tracked.index((hand_id, landmarks)), counted from 0
RECURSIVE ProcessHands(_, _, _, _, _)
ProcessHands(st, tracked, k, t, callbacks) ==
    IF k > Len(tracked) \/ st.raised THEN st
    ELSE ProcessHands(
            ProcessHand(st, k - 1, tracked[k].id, tracked[k].lm,
                        Classify(tracked[k].lm), t, callbacks),
            tracked, k + 1, t, callbacks)

-----------------------------------------------------------------------------
(* SequenceDetector *)

\* SequenceDetector.with_defaults(): the templates in registration order,
\* max_duration in ticks
DefaultSequences == <<
    [name |-> "release", gestures |-> <<"fist", "open_hand">>, max_duration |-> 30],
    [name |-> "grab", gestures |-> <<"open_hand", "fist">>, max_duration |-> 30],
    [name |-> "pinch_release", gestures |-> <<"ok_sign", "open_hand">>, max_duration |-> 30],
    [name |-> "peace_out", gestures |-> <<"peace", "fist">>, max_duration |-> 40],
    [name |-> "wave", gestures |-> <<"open_hand", "fist", "open_hand">>, max_duration |-> 40],
    [name |-> "point_and_click", gestures |-> <<"pointing", "fist">>, max_duration |-> 30] >>

\* list(history)[-len(pattern):]
TailOf(history, n) == SubSeq(history, Len(history) - n + 1, Len(history))

\* "Check last N entries match pattern"
PatternMatches(tail, pattern) ==
    \A i \in 1..Len(pattern) : tail[i].gesture = pattern[i]

\* duration = tail[-1][1] - tail[0][1]
TailDuration(tail) == tail[Len(tail)].time - tail[1].time

\* a duration test that lets every duration pass
WithinDurationAlways(tail, seq) == TRUE

\* "Check duration constraint"
WithinDuration(tail, seq) == TailDuration(tail) <= seq.max_duration

\* a cooldown that is never running
SeqCooldownNever(last_triggered, key, t) == FALSE

\* "Cooldown": key in self._last_triggered and now - last < self._cooldown
SeqCooldownRunning(last_triggered, key, t) ==
    /\ key \in DOMAIN last_triggered
    /\ t - last_triggered[key] < SeqCooldown

\* SequenceDetector._check_sequence: whether the template fires
CheckSequence(seq, history, hand, t, last_triggered) ==
    /\ Len(history) >= Len(seq.gestures)
    /\ ~SeqCooldownRunning(last_triggered, <<hand, seq.name>>, t)
    /\ PatternMatches(TailOf(history, Len(seq.gestures)), seq.gestures)
    /\ WithinDuration(TailOf(history, Len(seq.gestures)), seq)

\* what a firing template leaves: the trigger time, the match duration, the event;
\* acc = [last_triggered, last_match_duration, events]
FireSequence(seq, history, hand, t, acc) ==
    [last_triggered |-> Put(acc.last_triggered, <<hand, seq.name>>, t),
     last_match_duration |-> TailDuration(TailOf(history, Len(seq.gestures))),
     events |-> Append(acc.events,
                  [sequence_name |-> seq.name, gestures |-> seq.gestures,
                   duration |-> TailDuration(TailOf(history, Len(seq.gestures))),
                   timestamp |-> t])]

\* a loop over self._sequences that stops at the first template that fires
RECURSIVE CheckSequencesFirstOnly(_, _, _, _, _, _)
CheckSequencesFirstOnly(seqs, i, history, hand, t, acc) ==
    IF i > Len(seqs) THEN acc
    ELSE IF CheckSequence(seqs[i], history, hand, t, acc.last_triggered)
         THEN FireSequence(seqs[i], history, hand, t, acc)
         ELSE CheckSequencesFirstOnly(seqs, i + 1, history, hand, t, acc)

\* "Check sequences": the loop over self._sequences in feed
RECURSIVE CheckSequences(_, _, _, _, _, _)
CheckSequences(seqs, i, history, hand, t, acc) ==
    IF i > Len(seqs) THEN acc
    ELSE IF CheckSequence(seqs[i], history, hand, t, acc.last_triggered)
         THEN CheckSequences(seqs, i + 1, history, hand, t,
                             FireSequence(seqs[i], history, hand, t, acc))
         ELSE CheckSequences(seqs, i + 1, history, hand, t, acc)

\* a transition test that takes every pose for a new one
IsRepeatNever(history, gesture) == FALSE

\* "Only record transitions": history and history[-1][0] == gesture
IsRepeat(history, gesture) ==
    Len(history) > 0 /\ history[Len(history)].gesture = gesture

\* the times of the events a feed returned, noted per <<hand, name>>
RECURSIVE NoteSequenceEvents(_, _, _, _)
NoteSequenceEvents(emitted, events, i, hand) ==
    IF i > Len(events) THEN emitted
    ELSE NoteSequenceEvents(
             NoteEmission(emitted, <<hand, events[i].sequence_name>>, events[i].timestamp),
             events, i + 1, hand)

\* SequenceDetector.feed(gesture, hand, t) on the detector
\* det = [sequences, history, last_triggered, last_match_duration]: the fields
\* it leaves, the list it returns, and whether it appended to the buffer
SeqFeed(det, gesture, hand, t) ==
    IF IsRepeat(HistoryOf(det.history, hand), gesture)
    THEN [history |-> det.history, last_triggered |-> det.last_triggered,
          last_match_duration |-> det.last_match_duration,
          events |-> <<>>, appended |-> FALSE]
    ELSE LET history == DequeAppend(HistoryOf(det.history, hand),
                                    [gesture |-> gesture, time |-> t], SeqMaxHistory)
             r == CheckSequences(det.sequences, 1, history, hand, t,
                                 [last_triggered |-> det.last_triggered,
                                  last_match_duration |-> det.last_match_duration,
                                  events |-> <<>>])
         IN  [history |-> Put(det.history, hand, history),
              last_triggered |-> r.last_triggered,
              last_match_duration |-> r.last_match_duration,
              events |-> r.events, appended |-> TRUE]

-----------------------------------------------------------------------------
(* TrajectoryTracker, DrawingCanvas, BimanualDetector: what capture_loop's    *)
(* updates leave in them for hands that hold their place                     *)

\* "Prune old points"
RECURSIVE TrajPrune(_, _)
TrajPrune(path, t) ==
    IF Len(path) > 0 /\ t - path[1].time > TrajWindow
    THEN TrajPrune(Tail(path), t)
    ELSE path

\* "Check velocity": below velocity_threshold when the centroid has not moved
TrajStill(path) ==
    IF Len(path) >= 2 /\ path[Len(path)].time - path[Len(path) - 1].time > 0
    THEN path[Len(path)].point = path[Len(path) - 1].point
    ELSE TRUE

\* TrajectoryTracker.update(hand_id, landmarks, t) on tr = [paths, still_counts].
\* A path that stays at one point is shorter than min_path_length, so
\* _match_path returns no event and the path is never cleared.
TrajUpdate(tr, hand_id, lm, t) ==
    LET path == Append(TrajPrune(HistoryOf(tr.paths, hand_id), t),
                       [time |-> t, point |-> lm.c])
        count == IF hand_id \in DOMAIN tr.still_counts THEN tr.still_counts[hand_id] ELSE 0
    IN  [paths |-> Put(tr.paths, hand_id, path),
         still_counts |-> Put(tr.still_counts, hand_id,
                              IF TrajStill(path) THEN count + 1 ELSE 0)]

\* _match_path's total_length: the sum of the distances between successive points
RECURSIVE TotalLength(_)
TotalLength(path) ==
    IF Len(path) < 2 THEN 0
    ELSE LET d == path[2].point - path[1].point
         IN  (IF d < 0 THEN -d ELSE d) + TotalLength(Tail(path))

\* _match_path has an event to return: the tracker holds templates
\* (with_defaults), the path is not shorter than min_path_length, and some
\* template's score reaches its min_score.  The score is a DTW distance over
\* the resampled path; scored stands for its comparison with min_score.
MatchPath(path, scored) == ~(TotalLength(path) < MinPathLength) /\ scored

LastMatchTime(tr, hand_id) ==
    IF hand_id \in DOMAIN tr.last_match_time THEN tr.last_match_time[hand_id] ELSE 0

\* TrajectoryTracker.update(hand_id, landmarks, t) on
\* tr = [paths, still_counts, last_match_time], point the centroid.  tried
\* tells that the templates were scored against the path.
TrackerUpdated(tr, hand_id, point, t, scored) ==
    LET path == Append(TrajPrune(HistoryOf(tr.paths, hand_id), t),
                       [time |-> t, point |-> point])
        count == IF hand_id \in DOMAIN tr.still_counts THEN tr.still_counts[hand_id] ELSE 0
        still == IF TrajStill(path) THEN count + 1 ELSE 0
        qualified == still >= StillFrames /\ Len(path) > MinPathPoints
        checked == qualified /\ t - LastMatchTime(tr, hand_id) > TrajCooldown
        matched == checked /\ MatchPath(path, scored)
    IN  [paths |-> Put(tr.paths, hand_id, IF matched THEN <<>> ELSE path),
         still_counts |-> Put(tr.still_counts, hand_id, still),
         last_match_time |-> IF matched THEN Put(tr.last_match_time, hand_id, t)
                             ELSE tr.last_match_time,
         events |-> IF matched THEN <<[hand_id |-> hand_id, timestamp |-> t]>> ELSE <<>>,
         tried |-> checked /\ ~(TotalLength(path) < MinPathLength),
         qualified |-> qualified,
         checked |-> checked]

Without(f, k) == [x \in DOMAIN f \ {k} |-> f[x]]

\* a clear that also forgets when the hand last matched
TrackerClearedWithMatchTime(tr, hand_id) ==
    [paths |-> Without(tr.paths, hand_id),
     still_counts |-> Without(tr.still_counts, hand_id),
     last_match_time |-> Without(tr.last_match_time, hand_id)]

\* TrajectoryTracker.clear(hand_id)
TrackerCleared(tr, hand_id) ==
    [paths |-> Without(tr.paths, hand_id),
     still_counts |-> Without(tr.still_counts, hand_id),
     last_match_time |-> tr.last_match_time]

\* "Count direction changes"
DirectionChanges(positions) ==
    Cardinality({i \in 3..Len(positions) :
                    (positions[i - 1].x - positions[i - 2].x)
                        * (positions[i].x - positions[i - 1].x) < 0})

\* DrawingCanvas._detect_shake
DetectShake(cv, t) ==
    /\ ~(t < cv.shake_cooldown)
    /\ ~(Len(cv.shake_positions) < ShakeMinLen)
    /\ DirectionChanges(cv.shake_positions) >= ShakeMinChanges
    /\ cv.shake_positions[Len(cv.shake_positions)].time - cv.shake_positions[1].time
          < ShakeMaxSpan

\* a DrawCommand: its type, x, x2 and color (y and y2 stay where they are: the
\* fingertip of this model moves along a horizontal line)
White == "#ffffff"

Green == "#22c55e"

DrawCommand(type, x, x2, color) == [type |-> type, x |-> x, x2 |-> x2, color |-> color]

ClearCommand == DrawCommand("clear", 0, 0, White)

\* GESTURE_COLORS, of the poses this model draws with
GestureColors == [pointing |-> White, peace |-> Green]

DrawGestures == DOMAIN GestureColors

NoPoint == -1

RECURSIVE SumOf(_)
SumOf(points) == IF points = <<>> THEN 0 ELSE Head(points) + SumOf(Tail(points))

\* "Smooth the point": the mean of the buffer once it holds two points
SmoothPoint(buffer, tip) ==
    IF Len(buffer) >= 2 THEN SumOf(buffer) \div Len(buffer) ELSE tip

\* dist > 0.003, the coordinates in hundredths
MovedEnough(a, b) == Abs(a - b) > 0

\* self._history[-self._max_history // 2:], the floor division binding after the minus
TrimHistory(history, max_history) ==
    LET keep == (max_history + 1) \div 2
    IN  IF Len(history) > max_history
        THEN <<ClearCommand>> \o (IF keep = 0 THEN history
                                  ELSE SubSeq(history, Len(history) - keep + 1, Len(history)))
        ELSE history

\* a shake that starts no cooldown
ShakeCooldownNone(t) == t

\* self._shake_cooldown = now + 2.0
ShakeCooldownFrom(t) == t + ShakePause

\* DrawingCanvas.update(landmarks, gesture, t) on cv = [history, max_history,
\* current_color, last_point, point_buffer, drawing, shake_positions,
\* shake_cooldown, commands], tip the x of the index fingertip in hundredths.
\* (t is never 0 here, so that "timestamp or time.monotonic()" is t.)
DrawingMode(cv, tip, gesture, t) ==
    LET color == GestureColors[gesture]
        cv1 == [cv EXCEPT !.current_color = color,
                          !.commands = IF color # cv.current_color
                                       THEN <<DrawCommand("color", 0, 0, color)>> ELSE <<>>,
                          !.point_buffer = DequeAppend(@, tip, Smoothing),
                          !.drawing = TRUE]
        smooth == SmoothPoint(cv1.point_buffer, tip)
        line == DrawCommand("line", cv.last_point, smooth, color)
    IN  IF cv.last_point # NoPoint
        THEN IF MovedEnough(smooth, cv.last_point)
             THEN [cv1 EXCEPT !.commands = Append(@, line), !.history = Append(@, line),
                              !.last_point = smooth]
             ELSE cv1
        ELSE [cv1 EXCEPT !.last_point = smooth]

DrawingCanvasUpdate(cv, tip, gesture, t) ==
    LET cv1 ==
            IF gesture = "fist"
            THEN LET cmd == DrawCommand("erase", tip, 0, White)
                 IN  [cv EXCEPT !.drawing = FALSE, !.last_point = NoPoint,
                                !.commands = <<cmd>>, !.history = Append(@, cmd)]
            ELSE IF gesture = "open_hand"
            THEN LET cv2 == [cv EXCEPT !.shake_positions =
                                           DequeAppend(@, [x |-> tip, time |-> t], ShakeMaxLen),
                                       !.drawing = FALSE, !.last_point = NoPoint,
                                       !.commands = <<>>]
                 IN  IF DetectShake(cv2, t)
                     THEN [cv2 EXCEPT !.commands = <<ClearCommand>>,
                                      !.history = <<ClearCommand>>,
                                      !.shake_positions = <<>>,
                                      !.shake_cooldown = ShakeCooldownFrom(t)]
                     ELSE cv2
            ELSE IF gesture \in DrawGestures
            THEN DrawingMode(cv, tip, gesture, t)
            ELSE [cv EXCEPT !.drawing = FALSE, !.last_point = NoPoint,
                            !.point_buffer = <<>>, !.commands = <<>>]
    IN  [cv1 EXCEPT !.history = TrimHistory(@, cv.max_history)]

\* a clear that leaves the stroke where it is
CanvasClearedKeepsStroke(cv) == [cv EXCEPT !.history = <<ClearCommand>>, !.commands = <<>>]

\* DrawingCanvas.clear()
CanvasCleared(cv) ==
    [cv EXCEPT !.history = <<ClearCommand>>, !.last_point = NoPoint, !.point_buffer = <<>>,
               !.commands = <<>>]

\* round(x, 1), x in hundredths and never half-way between two tenths
Round1(x) == ((x + 5) \div 10) * 10

\* DrawCommand.to_dict
ToDict(cmd) ==
    IF cmd.type = "line"
    THEN [type |-> "line", x1 |-> Round1(cmd.x), x2 |-> Round1(cmd.x2), color |-> cmd.color]
    ELSE IF cmd.type = "erase" THEN [type |-> "erase", x |-> Round1(cmd.x)]
    ELSE IF cmd.type = "clear" THEN [type |-> "clear"]
    ELSE IF cmd.type = "color" THEN [type |-> "color", color |-> cmd.color]
    ELSE [type |-> cmd.type]

\* DrawingCanvas.get_full_state
GetFullState(history) == [i \in 1..Len(history) |-> ToDict(history[i])]

\* "Trim history"
CanvasTrim(history) ==
    IF Len(history) > CanvasMaxHistory
    THEN <<"clear">> \o SubSeq(history, Len(history) - (CanvasMaxHistory \div 2) + 1,
                               Len(history))
    ELSE history

\* DrawingCanvas.update(landmarks, gesture, t) on
\* cv = [history, shake_positions, shake_cooldown, commands]: the erase mode and
\* the open-hand mode.  (_drawing stays False and _last_point None in both; the
\* poses of the colour table, which draw, are not among the loop's frames.)
CanvasUpdate(cv, lm, gesture, t) ==
    IF gesture = "fist"
    THEN [cv EXCEPT !.history = CanvasTrim(Append(@, "erase")), !.commands = <<"erase">>]
    ELSE IF gesture = "open_hand"
    THEN LET cv1 == [cv EXCEPT !.shake_positions =
                                   DequeAppend(@, [x |-> lm.c, time |-> t], ShakeMaxLen),
                               !.commands = <<>>]
         IN  IF DetectShake(cv1, t)
             THEN [cv1 EXCEPT !.history = <<"clear">>, !.shake_positions = <<>>,
                              !.shake_cooldown = t + ShakePause,
                              !.commands = <<"clear">>]
             ELSE cv1
    ELSE [cv EXCEPT !.commands = <<>>]

\* BimanualDetector.update(hands, t): the entry appended to _history.  (Its
\* zoom, clap, frame and conducting detectors read the geometry of the two
\* hands, which a hand of this model does not carry.)
BiUpdate(history, pairs, t) ==
    IF Len(pairs) < 2 THEN history ELSE DequeAppend(history, t, BiHistorySize)

-----------------------------------------------------------------------------
(* capture_loop: the body of the loop over the hands of one frame *)

\* last and last[0] == gesture_name and (now - last[1]) < cooldown
LoopInCooldown(last_gestures, hand_idx, gesture_name, t) ==
    /\ hand_idx \in DOMAIN last_gestures
    /\ last_gestures[hand_idx].gesture = gesture_name
    /\ t - last_gestures[hand_idx].time < LoopCooldown

\* state.sequence_detector.feed and the broadcast of its events
LoopSequences(st, hand_idx, gesture_name, t) ==
    LET fed == SeqFeed(st.det, gesture_name, hand_idx, t)
    IN  [st EXCEPT !.det = [sequences |-> st.det.sequences, history |-> fed.history,
                            last_triggered |-> fed.last_triggered,
                            last_match_duration |-> fed.last_match_duration],
                   !.seq_fed = [gesture |-> gesture_name, hand |-> hand_idx, time |-> t,
                                appended |-> fed.appended],
                   !.seq_events = fed.events,
                   !.seq_emitted = NoteSequenceEvents(@, fed.events, 1, hand_idx),
                   !.broadcast = @ \o [i \in 1..Len(fed.events) |->
                                          [type |-> "sequence",
                                           name |-> fed.events[i].sequence_name,
                                           gestures |-> fed.events[i].gestures,
                                           hand_index |-> hand_idx]],
                   !.calls = Append(@, [sink |-> "sequence", hand |-> hand_idx])]

\* state.trajectory_tracker.update, when the raw detection has the hand
LoopTrajectory(st, hand_idx, raw_hands, t) ==
    IF hand_idx < Len(raw_hands)
    THEN [st EXCEPT !.traj = TrajUpdate(@, hand_idx, raw_hands[hand_idx + 1], t),
                    !.calls = Append(@, [sink |-> "trajectory", hand |-> hand_idx])]
    ELSE st

\* state.drawing_canvas.update, when the raw detection has the hand, and the
\* broadcast of its commands
LoopCanvas(st, hand_idx, raw_hands, gesture_name, t) ==
    IF hand_idx < Len(raw_hands)
    THEN LET cv == CanvasUpdate(st.canvas, raw_hands[hand_idx + 1], gesture_name, t)
         IN  [st EXCEPT !.canvas = cv,
                        !.broadcast = IF cv.commands # <<>>
                                      THEN Append(@, [type |-> "canvas_commands",
                                                      name |-> cv.commands[1],
                                                      hand_index |-> hand_idx])
                                      ELSE @,
                        !.calls = Append(@, [sink |-> "canvas", hand |-> hand_idx])]
    ELSE st

\* the hand's gesture event: last_gestures, the counter, the broadcast.
\* (state.gesture_heatmap, state.metrics and state.last_gesture only report;
\* the plugin directory holds a logger.)
LoopGesture(st, hand_idx, gesture_name, t) ==
    [st EXCEPT !.last_gestures = Put(@, hand_idx, [gesture |-> gesture_name, time |-> t]),
               !.total_gestures = @ + 1,
               !.broadcast = Append(@, [type |-> "gesture", name |-> gesture_name,
                                        hand_index |-> hand_idx])]

\* a pass that feeds the sequence detector before it broadcasts the gesture event
LoopHandSequencesFirst(st, hand_idx, landmarks, raw_hands, t) ==
    LET result == Classify(landmarks)
    IN  IF result = NoMatch THEN st
        ELSE IF LoopInCooldown(st.last_gestures, hand_idx, result.name, t)
        THEN [st EXCEPT !.tracked_pairs = Append(@, hand_idx),
                        !.suppressed = @ \cup {hand_idx}]
        ELSE LoopCanvas(
                 LoopTrajectory(
                     LoopGesture(
                         LoopSequences([st EXCEPT !.tracked_pairs = Append(@, hand_idx)],
                                       hand_idx, result.name, t),
                         hand_idx, result.name, t),
                     hand_idx, raw_hands, t),
                 hand_idx, raw_hands, result.name, t)

\* a pass that enters the hand in tracked_pairs only once the cooldown let it through
LoopHandPairsAfterCooldown(st, hand_idx, landmarks, raw_hands, t) ==
    LET result == Classify(landmarks)
    IN  IF result = NoMatch THEN st
        ELSE IF LoopInCooldown(st.last_gestures, hand_idx, result.name, t)
        THEN [st EXCEPT !.suppressed = @ \cup {hand_idx}]
        ELSE LoopCanvas(
                 LoopTrajectory(
                     LoopSequences(
                         LoopGesture([st EXCEPT !.tracked_pairs = Append(@, hand_idx)],
                                     hand_idx, result.name, t),
                         hand_idx, result.name, t),
                     hand_idx, raw_hands, t),
                 hand_idx, raw_hands, result.name, t)

\* one pass of "for hand_idx, landmarks in enumerate(hands)"
LoopHand(st, hand_idx, landmarks, raw_hands, t) ==
    LET result == Classify(landmarks)
    IN  IF result = NoMatch THEN st
        ELSE IF LoopInCooldown(st.last_gestures, hand_idx, result.name, t)
        THEN [st EXCEPT !.tracked_pairs = Append(@, hand_idx),
                        !.suppressed = @ \cup {hand_idx}]
        ELSE LoopCanvas(
                 LoopTrajectory(
                     LoopSequences(
                         LoopGesture([st EXCEPT !.tracked_pairs = Append(@, hand_idx)],
                                     hand_idx, result.name, t),
                         hand_idx, result.name, t),
                     hand_idx, raw_hands, t),
                 hand_idx, raw_hands, result.name, t)

RECURSIVE LoopHands(_, _, _, _, _)
LoopHands(st, hands, raw_hands, k, t) ==
    IF k > Len(hands) THEN st
    ELSE LoopHands(LoopHand(st, k - 1, hands[k], raw_hands, t), hands, raw_hands, k + 1, t)

-----------------------------------------------------------------------------
(* Inputs *)

\* time between two reads of the monotonic clock
Dts == {2, TrackerTimeout, TrackerTimeout + 1}

\* hands as the tracker sees them: only the centroid counts
TrackerHands == {FiniteHand(c, {}, FALSE) : c \in Pos}

HandLists(H) == UNION {[1..n -> H] : n \in 0..MaxHands}

\* hands as the pipeline sees them: a fist and a peace sign at one place, a fist
\* out of tracking range of them, and a hand with non-finite landmarks
PipelineHands ==
    {FiniteHand(0, {}, FALSE), FiniteHand(0, {2, 3}, FALSE),
     FiniteHand(4, {}, FALSE), NaNHand}

\* time between two frames of the pipeline: half the tracker timeout, or a
\* pause longer than the tracker timeout and the cooldown
FrameDts == {TrackerTimeout \div 2, TrackerTimeout + 1}

\* one hand held in front of the camera, showing a fist or a peace sign, a
\* frame every tick
HeldHandFrames == {<<FiniteHand(0, {}, FALSE)>>, <<FiniteHand(0, {2, 3}, FALSE)>>}

-----------------------------------------------------------------------------
(* State machine of the tracker alone *)

InitTracker ==
    /\ trk_next_id = 0
    /\ trk_tracked = <<>>
    /\ trk_in = <<>>
    /\ trk_out = <<>>
    /\ trk_issued = <<>>

Update(hands, dt) ==
    /\ now + dt <= MaxTime
    /\ \E r \in {TrackerUpdate(trk_tracked, trk_next_id, hands, now + dt)} :
           /\ r.next <= MaxIds
           /\ trk_tracked' = r.trk
           /\ trk_next_id' = r.next
           /\ trk_out' = r.matched
           /\ trk_issued' = trk_issued \o r.fresh
    /\ trk_in' = hands
    /\ now' = now + dt
    /\ UNCHANGED <<pipeVars, seqVars, loopVars, auxVars>>

\* poses fed to the sequence detector, and the hands they are fed for
SeqGestures == {"fist", "open_hand", "peace"}
SeqHands == 0..(MaxHands - 1)

\* time between two feeds: within the sequence cooldown, or longer than the
\* longest max_duration less that
SeqDts == {8, 33}

\* templates registered on top of the defaults: GestureSequence(name, gestures)
\* with the default max_duration of 2.0 s
ExtraSequences ==
    {[name |-> "abc", gestures |-> <<"fist", "peace", "open_hand">>, max_duration |-> 40]}

\* what the camera shows capture_loop: no hand, a hand at 0, or hands at 0 and
\* at 4, each a fist or an open hand.  (Every pose has at least three fingers
\* in the state a fist or an open hand requires, so the default registry
\* matches every hand.)
LoopPoses == {{}, Fingers}

LoopFrames ==
    {<<>>} \cup {<<FiniteHand(0, p, FALSE)>> : p \in LoopPoses}
           \cup {<<FiniteHand(0, p, FALSE), FiniteHand(4, q, FALSE)>> :
                    p \in LoopPoses, q \in LoopPoses}

\* time between two frames of capture_loop: half the loop's cooldown, or all of it
LoopDts == {LoopCooldown \div 2, LoopCooldown}

-----------------------------------------------------------------------------
(* State machine of the sequence detector *)

NoFeed == [gesture |-> "none", hand |-> 0, time |-> 0, appended |-> FALSE]

InitSequences ==
    /\ seq_sequences = DefaultSequences
    /\ seq_history = <<>>
    /\ seq_last_triggered = <<>>
    /\ seq_last_match_duration = 0
    /\ seq_fed = NoFeed
    /\ seq_events = <<>>
    /\ seq_emitted = <<>>

\* SequenceDetector.register
Register(seq) ==
    /\ Len(seq_sequences) < MaxSequences
    /\ seq_sequences' = Append(seq_sequences, seq)
    /\ seq_fed' = NoFeed
    /\ seq_events' = <<>>
    /\ UNCHANGED <<now, trackerVars, pipeVars, loopVars, auxVars, seq_history,
                   seq_last_triggered, seq_last_match_duration, seq_emitted>>

\* SequenceDetector.feed(gesture, hand, now + dt)
Feed(gesture, hand, dt) ==
    /\ now + dt <= SeqMaxTime
    /\ now' = now + dt
    /\ \E fed \in {SeqFeed([sequences |-> seq_sequences, history |-> seq_history,
                               last_triggered |-> seq_last_triggered,
                               last_match_duration |-> seq_last_match_duration],
                              gesture, hand, now + dt)} :
          /\ seq_history' = fed.history
          /\ seq_last_triggered' = fed.last_triggered
          /\ seq_last_match_duration' = fed.last_match_duration
          /\ seq_events' = fed.events
          /\ seq_emitted' = NoteSequenceEvents(seq_emitted, fed.events, 1, hand)
          /\ seq_fed' = [gesture |-> gesture, hand |-> hand, time |-> now + dt,
                         appended |-> fed.appended]
    /\ UNCHANGED <<trackerVars, pipeVars, loopVars, auxVars, seq_sequences>>

\* SequenceDetector.reset(hand_index)
SeqResetHand(hand) ==
    /\ hand \in DOMAIN seq_history
    /\ seq_history' = [h \in DOMAIN seq_history \ {hand} |-> seq_history[h]]
    /\ seq_fed' = NoFeed
    /\ seq_events' = <<>>
    /\ UNCHANGED <<now, trackerVars, pipeVars, loopVars, auxVars, seq_sequences,
                   seq_last_triggered, seq_last_match_duration, seq_emitted>>

\* SequenceDetector.reset()
SeqResetAll ==
    /\ seq_history # <<>>
    /\ seq_history' = <<>>
    /\ seq_last_triggered' = <<>>
    /\ seq_emitted' = <<>>
    /\ seq_fed' = NoFeed
    /\ seq_events' = <<>>
    /\ UNCHANGED <<now, trackerVars, pipeVars, loopVars, auxVars, seq_sequences, seq_last_match_duration>>

-----------------------------------------------------------------------------
(* State machine of the pipeline *)

InitPipeline ==
    /\ pipe_history = <<>>
    /\ pipe_last_triggered = <<>>
    /\ pipe_thresholds = <<>>
    /\ pipe_callbacks = <<>>
    /\ pipe_total_frames = 0
    /\ pipe_total_gestures = 0
    /\ pipe_events = <<>>
    /\ pipe_result = "returned"
    /\ pipe_emitted = <<>>
    /\ pipe_smoothed = <<>>
    /\ pipe_fresh = [active |-> FALSE]
    /\ pipe_hold = [active |-> FALSE]

\* an event of `events` is for the pose the hand shows
HasEventFor(events, hand) ==
    \E i \in 1..Len(events) : events[i].gesture = Classify(hand).name

\* GesturePipeline(): the state of a pipeline just constructed
FreshPipeline ==
    [active |-> TRUE, fed |-> FALSE, trk |-> <<>>, next |-> 0, history |-> <<>>,
     last_triggered |-> <<>>, thresholds |-> <<>>, events |-> <<>>]

\* process_frame of the pipeline f on a frame in which the detector finds `hands`
FreshFrame(f, hands, t, callbacks) ==
    LET r == TrackerUpdate(f.trk, f.next, hands, t)
        st == ProcessHands([history |-> f.history, last_triggered |-> f.last_triggered,
                            thresholds |-> f.thresholds, total_gestures |-> 0,
                            events |-> <<>>, raised |-> FALSE, emitted |-> <<>>,
                            smoothed |-> <<>>],
                           r.matched, 1, t, callbacks)
    IN  [active |-> TRUE, fed |-> TRUE, trk |-> r.trk, next |-> r.next,
         history |-> st.history, last_triggered |-> st.last_triggered,
         thresholds |-> st.thresholds, events |-> st.events]

\* GesturePipeline.on_gesture
OnGesture(cb) ==
    /\ Len(pipe_callbacks) < MaxCallbacks
    /\ pipe_callbacks' = Append(pipe_callbacks, cb)
    /\ UNCHANGED <<now, trackerVars, pipe_history, pipe_last_triggered, pipe_thresholds,
                   pipe_total_frames, pipe_total_gestures, pipe_events, pipe_result,
                   pipe_emitted, pipe_smoothed, pipe_fresh, pipe_hold, seqVars, loopVars,
                   auxVars>>

\* GesturePipeline.process_frame on a frame in which the detector finds `hands`.
\* (_frame_times and the profiler only measure durations; they are left out.)
FrameProcessed(hands, dt) ==
    /\ now' = now + dt
    /\ pipe_total_frames' = pipe_total_frames + 1
    /\ trk_in' = hands
    /\ \E r \in {TrackerUpdate(trk_tracked, trk_next_id, hands, now + dt)} :
          /\ r.next <= MaxIds
          /\ trk_tracked' = r.trk
          /\ trk_next_id' = r.next
          /\ trk_out' = r.matched
          /\ trk_issued' = trk_issued \o r.fresh
          /\ \E st \in {ProcessHands(
                            [history |-> pipe_history,
                             last_triggered |-> pipe_last_triggered,
                             thresholds |-> pipe_thresholds,
                             total_gestures |-> pipe_total_gestures,
                             events |-> <<>>, raised |-> FALSE,
                             emitted |-> pipe_emitted,
                             smoothed |-> pipe_smoothed],
                            r.matched, 1, now + dt, pipe_callbacks)} :
                /\ pipe_history' = st.history
                /\ pipe_last_triggered' = st.last_triggered
                /\ pipe_thresholds' = st.thresholds
                /\ pipe_total_gestures' = st.total_gestures
                /\ pipe_events' = st.events
                /\ pipe_result' = IF st.raised THEN "raised" ELSE "returned"
                /\ pipe_emitted' = st.emitted
                /\ pipe_smoothed' = st.smoothed
                /\ pipe_hold' = IF pipe_hold.active
                                THEN [pipe_hold EXCEPT
                                         !.frames = @ + 1,
                                         !.emitted = @ \/ HasEventFor(st.events, pipe_hold.hand)]
                                ELSE pipe_hold
    /\ pipe_fresh' = IF pipe_fresh.active
                     THEN FreshFrame(pipe_fresh, hands, now + dt, pipe_callbacks)
                     ELSE pipe_fresh
    /\ UNCHANGED <<pipe_callbacks, seqVars, loopVars, auxVars>>

\* process_frame within the bounds of the model
ProcessFrame(hands, dt) ==
    /\ now + dt <= MaxFrameTime
    /\ pipe_total_frames < MaxFrames
    /\ FrameProcessed(hands, dt)

\* the hands held: one that classifies as open_hand with confidence 0.6, the
\* base threshold, and a fist of confidence 1.0
HoldHands == {FiniteHand(0, {1, 3, 5}, FALSE), FiniteHand(0, {}, FALSE)}

\* from now on the hand is held in front of the camera, its confidence
\* being at least the base threshold
StartHold(hand) ==
    /\ ~pipe_hold.active
    /\ Classify(hand).confidence >= BaseThreshold
    /\ pipe_hold' = [active |-> TRUE, hand |-> hand, frames |-> 0, emitted |-> FALSE]
    /\ UNCHANGED <<now, trackerVars, pipe_history, pipe_last_triggered, pipe_thresholds,
                   pipe_callbacks, pipe_total_frames, pipe_total_gestures, pipe_events,
                   pipe_result, pipe_emitted, pipe_smoothed, pipe_fresh, seqVars, loopVars,
                   auxVars>>

\* a frame of a camera in front of which one hand at a time shows a pose:
\* any of the hands for the first frames, the hand held from then on
HoldFrame(hand) ==
    /\ IF pipe_hold.active THEN hand = pipe_hold.hand ELSE now < MaxPrefixTime
    /\ now + 1 <= MaxHoldTime
    /\ FrameProcessed(<<hand>>, 1)

\* GesturePipeline.reset
Reset ==
    /\ pipe_history' = <<>>
    /\ pipe_last_triggered' = <<>>
    /\ pipe_total_frames' = 0
    /\ pipe_total_gestures' = 0
    /\ pipe_smoothed' = <<>>
    /\ pipe_fresh' = FreshPipeline
    /\ UNCHANGED <<now, trackerVars, pipe_hold, pipe_thresholds, pipe_callbacks, pipe_events,
                   pipe_result, pipe_emitted, seqVars, loopVars, auxVars>>

-----------------------------------------------------------------------------
(* State machine of an AdaptiveThresholds on its own *)

\* base_threshold as the min_confidence knob sets it: below min_threshold, the
\* default, above max_threshold
ThresholdBases == {MinThreshold - 100, BaseThreshold, MaxThreshold + 40}

\* the poses recorded
ThresholdGestures == {"fist", "peace"}

InitThresholds ==
    /\ thr_base = BaseThreshold
    /\ thr_thresholds = <<>>

\* AdaptiveThresholds.record(gesture, confidence, was_stable)
Record(gesture, was_stable) ==
    /\ thr_thresholds' = AdaptiveRecordFrom(thr_thresholds, gesture, was_stable, thr_base)
    /\ UNCHANGED <<now, trackerVars, pipeVars, seqVars, loopVars, thr_base, bcVars, tjVars,
                   soloVars>>

-----------------------------------------------------------------------------
(* A BimanualDetector on its own.  A pair of hands is its inter-hand         *)
(* distance; the frame and conducting detectors, which read the landmarks   *)
(* and keep cooldowns of their own names, are left out.                     *)

NoDistance == -1

coreVars == <<trackerVars, pipeVars, seqVars, loopVars, thrVars, bcVars, tjVars>>

\* _check_cooldown: "Returns True if gesture is NOT in cooldown"
CheckCooldown(cooldowns, gesture, t, cooldown) ==
    LET last == IF gesture \in DOMAIN cooldowns THEN cooldowns[gesture] ELSE 0
    IN  ~(t - last < cooldown)

\* _detect_zoom on det = [history, last_distance, cooldowns, events]
DetectZoom(det, distance, t) ==
    IF /\ det.last_distance # NoDistance
       /\ Abs(distance - det.last_distance) > ZoomThreshold
       /\ CheckCooldown(det.cooldowns, "pinch_zoom", t, ZoomCooldown)
    THEN [det EXCEPT !.last_distance = distance, !.events = Append(@, "pinch_zoom")]
    ELSE [det EXCEPT !.last_distance = distance]

\* velocity > self.clap_velocity, the velocity (prev_dist - distance) / dt
ConvergesFast(prev, distance, t) ==
    (prev.distance - distance) * TicksPerSecond > ClapVelocity * (t - prev.time)

\* _detect_clap; clap_prev notes the ring entry it read as prev_left, prev_right
\* and prev_t
DetectClap(det, distance, t) ==
    IF ~CheckCooldown(det.cooldowns, "clap", t, ClapCooldown) THEN det
    ELSE IF distance > ClapDistance THEN det
    ELSE IF Len(det.history) < ClapRing THEN det
    ELSE LET prev == det.history[Len(det.history) - ClapRing + 1]
             read == [det EXCEPT !.clap_prev = <<prev>>]
         IN  IF t - prev.time <= 0 THEN read
             ELSE IF ConvergesFast(prev, distance, t)
             THEN [read EXCEPT !.cooldowns = Put(@, "clap", t),
                               !.events = Append(@, "clap")]
             ELSE read

\* BimanualDetector.update with two hands distance apart
BimanualUpdated(det, distance, t) ==
    DetectClap(
        DetectZoom([det EXCEPT !.history = DequeAppend(@, [distance |-> distance, time |-> t],
                                                       BiHistorySize),
                               !.events = <<>>],
                   distance, t),
        distance, t)

RECURSIVE NoteEvents(_, _, _)
NoteEvents(emitted, events, t) ==
    IF events = <<>> THEN emitted
    ELSE NoteEvents(NoteEmission(emitted, Head(events), t), Tail(events), t)

LastEmission(emitted, gesture) ==
    IF gesture \in DOMAIN emitted THEN emitted[gesture][2] ELSE -1

\* the inter-hand distances seen
BiDistances == {100, 400}

\* a frame later, or after a pause of a second
BiDts == {1, ClapCooldown}

InitBimanual ==
    /\ bim_history = <<>>
    /\ bim_last_distance = NoDistance
    /\ bim_cooldowns = <<>>
    /\ bim_call = [op |-> "none", n |-> 0]
    /\ bim_emitted = <<>>

bimRest == <<coreVars, cvVars, metVars, recVars, regVars, dtwVars>>

\* update(hands, now + dt) with two hands
BimanualUpdate(distance, dt) ==
    /\ bim_call.n < MaxBiCalls
    /\ now + dt <= MaxBiTime
    /\ now' = now + dt
    /\ \E det \in {BimanualUpdated([history |-> bim_history,
                                    last_distance |-> bim_last_distance,
                                    cooldowns |-> bim_cooldowns, events |-> <<>>,
                                    clap_prev |-> <<>>],
                                   distance, now + dt)} :
          /\ bim_history' = det.history
          /\ bim_last_distance' = det.last_distance
          /\ bim_cooldowns' = det.cooldowns
          /\ bim_call' = [op |-> "update", n |-> bim_call.n + 1, distance |-> distance, events |-> det.events,
                          last_clap |-> LastEmission(bim_emitted, "clap"),
                          clap_prev |-> det.clap_prev]
          /\ bim_emitted' = NoteEvents(bim_emitted, det.events, now + dt)
    /\ UNCHANGED bimRest

\* update(hands, now + dt) with fewer than two hands
BimanualUpdateOneHand(dt) ==
    /\ bim_call.n < MaxBiCalls
    /\ now + dt <= MaxBiTime
    /\ now' = now + dt
    /\ bim_last_distance' = NoDistance
    /\ bim_call' = [op |-> "one_hand", n |-> bim_call.n + 1]
    /\ UNCHANGED <<bim_history, bim_cooldowns, bim_emitted>>
    /\ UNCHANGED bimRest

\* BimanualDetector.reset()
BimanualReset ==
    /\ bim_call.n < MaxBiCalls
    /\ bim_history' = <<>>
    /\ bim_last_distance' = NoDistance
    /\ bim_cooldowns' = <<>>
    /\ bim_call' = [op |-> "reset", n |-> bim_call.n + 1]
    /\ UNCHANGED <<now, bim_emitted>>
    /\ UNCHANGED bimRest

-----------------------------------------------------------------------------
(* A DrawingCanvas on its own, and the picture of a client that has applied  *)
(* every command the canvas sent: a line paints the tenths between its      *)
(* ends, an erase wipes the tenth it is at (its radius, 25 pixels of 640,   *)
(* is less than half a tenth), a clear wipes all.                           *)

Tenths == {0, 10, 20, 30}

\* a client applies one command, a dict, to its picture: a set of <<tenth, color>>
Apply(picture, d) ==
    IF d.type = "clear" THEN {}
    ELSE IF d.type = "erase" THEN {px \in picture : px[1] # d.x}
    ELSE IF d.type = "line"
    THEN {px \in picture : px[1] < Min(d.x1, d.x2) \/ px[1] > Max(d.x1, d.x2)}
            \cup {<<x, d.color>> : x \in {y \in Tenths : /\ Min(d.x1, d.x2) <= y
                                                         /\ y <= Max(d.x1, d.x2)}}
    ELSE picture

RECURSIVE ApplyAll(_, _)
ApplyAll(picture, dicts) ==
    IF dicts = <<>> THEN picture ELSE ApplyAll(Apply(picture, Head(dicts)), Tail(dicts))

\* the sizes a canvas is built with
CanvasSizes == {1, 2, 3}

\* where the index fingertip is seen, in hundredths
CanvasTips == {0, 24}

CanvasGestures == {"fist", "pointing", "peace", "none"}

\* a frame later, or after a pause
ShakeDts == {1, ShakeMaxSpan \div 2 + 1}

\* the times the open hand stayed where it was, among the positions kept
Holds(positions) ==
    Cardinality({i \in 2..Len(positions) : positions[i].x = positions[i - 1].x})

InitCanvasOfSize(max_history) ==
    /\ cv_history = <<>>
    /\ cv_max_history = max_history
    /\ cv_current_color = White
    /\ cv_last_point = NoPoint
    /\ cv_point_buffer = <<>>
    /\ cv_drawing = FALSE
    /\ cv_shake_positions = <<>>
    /\ cv_shake_cooldown = 0
    /\ cv_call = [op |-> "none", n |-> 0]
    /\ cv_live = {}
    /\ cv_clears = <<-1, -1>>

InitCanvas == InitCanvasOfSize(CanvasMaxHistory)

TheCanvas ==
    [history |-> cv_history, max_history |-> cv_max_history,
     current_color |-> cv_current_color, last_point |-> cv_last_point,
     point_buffer |-> cv_point_buffer, drawing |-> cv_drawing,
     shake_positions |-> cv_shake_positions, shake_cooldown |-> cv_shake_cooldown,
     commands |-> <<>>]

HasType(commands, type) == \E i \in 1..Len(commands) : commands[i].type = type

cvRest == <<coreVars, bimVars, metVars, recVars, regVars, dtwVars>>

\* update(landmarks, gesture, now + dt), and the commands it returns sent on
\* as dicts (capture_loop's broadcast_canvas)
CanvasUpdate1(gesture, tip, dt) ==
    /\ now' = now + dt
    /\ \E cv \in {DrawingCanvasUpdate(TheCanvas, tip, gesture, now + dt)} :
          /\ cv_history' = cv.history
          /\ cv_current_color' = cv.current_color
          /\ cv_last_point' = cv.last_point
          /\ cv_point_buffer' = cv.point_buffer
          /\ cv_drawing' = cv.drawing
          /\ cv_shake_positions' = cv.shake_positions
          /\ cv_shake_cooldown' = cv.shake_cooldown
          /\ cv_call' = [op |-> "update", n |-> cv_call.n + 1, gesture |-> gesture,
                         commands |-> cv.commands, after |-> cv_call.op,
                         wiped |-> IF cv_call.op = "clear" THEN cv_call.wiped ELSE FALSE]
          /\ cv_live' = ApplyAll(cv_live, GetFullState(cv.commands))
          /\ cv_clears' = IF HasType(cv.commands, "clear")
                          THEN <<cv_clears[2], now + dt>> ELSE cv_clears
    /\ UNCHANGED cv_max_history
    /\ UNCHANGED cvRest

\* a frame of a canvas that draws and erases
CanvasFrame(gesture, tip) ==
    /\ cv_call.n < MaxCanvasCalls
    /\ CanvasUpdate1(gesture, tip, 1)

\* a frame of a canvas shown an open hand
ShakeFrame(tip, dt) ==
    /\ now + dt <= MaxShakeTime
    /\ Holds(Append(cv_shake_positions, [x |-> tip, time |-> now + dt])) <= MaxShakeHolds
    /\ CanvasUpdate1("open_hand", tip, dt)

\* clear(), and the clear command its caller sends on (canvas_websocket)
CanvasClear ==
    /\ cv_call.n < MaxCanvasCalls
    /\ \E cv \in {CanvasCleared(TheCanvas)} :
          /\ cv_history' = cv.history
          /\ cv_last_point' = cv.last_point
          /\ cv_point_buffer' = cv.point_buffer
    /\ cv_call' = [op |-> "clear", n |-> cv_call.n + 1,
                   wiped |-> HasType(cv_history, "line") /\ cv_last_point # NoPoint]
    /\ cv_live' = {}
    /\ UNCHANGED <<now, cv_max_history, cv_current_color, cv_drawing, cv_shake_positions,
                   cv_shake_cooldown, cv_clears>>
    /\ UNCHANGED cvRest

-----------------------------------------------------------------------------
(* A MetricsCollector called from several threads.  A thread may be        *)
(* switched out between any two bytecodes, so an augmented assignment is a  *)
(* read and a later write; what a thread does while it holds a lock no      *)
(* other thread of this model reads.                                        *)

\* the latency buckets, in milliseconds
Buckets == <<1, 2, 5, 10, 20, 33, 50, 100>>

Threads == 1..MaxThreads

\* the latencies observed, in milliseconds
Latencies == {0, 40}

MetricGestures == {"fist", "peace"}

InitMetrics ==
    /\ met_lock = 0
    /\ met_gesture_counts = <<>>
    /\ met_frames_total = 0
    /\ met_hands_total = 0
    /\ met_rate = 0
    /\ met_hist_lock = 0
    /\ met_hist = [bucket_counts |-> [i \in DOMAIN Buckets |-> 0], count |-> 0, sum |-> 0]
    /\ met_pc = [th \in Threads |-> "idle"]
    /\ met_arg = [th \in Threads |-> <<>>]
    /\ met_tmp = [th \in Threads |-> 0]
    /\ met_calls = [gestures |-> <<>>, frames |-> 0, hands |-> 0]

metRest == <<now, coreVars, bimVars, cvVars, recVars, regVars, dtwVars>>

\* a lock that any thread takes at any time
LockIgnored(lock) == TRUE

\* "with self._lock": the lock can be taken
LockFree(lock) == lock = 0

CountIn(counter, name) == IF name \in DOMAIN counter THEN counter[name] ELSE 0

\* a thread calls record_gesture(name)
RecordGesture(th, name) ==
    /\ met_pc[th] = "idle"
    /\ met_calls.frames + CountIn(met_calls.gestures, "fist")
          + CountIn(met_calls.gestures, "peace") < MaxMetricCalls
    /\ met_pc' = [met_pc EXCEPT ![th] = "gesture_lock"]
    /\ met_arg' = [met_arg EXCEPT ![th] = [name |-> name]]
    /\ met_calls' = [met_calls EXCEPT !.gestures = Put(@, name, CountIn(@, name) + 1)]
    /\ UNCHANGED <<met_lock, met_gesture_counts, met_frames_total, met_hands_total, met_rate,
                   met_hist_lock, met_hist, met_tmp>>
    /\ UNCHANGED metRest

\* a thread calls record_frame(latency_seconds, hands_detected)
RecordFrame(th, latency, hands) ==
    /\ met_pc[th] = "idle"
    /\ met_calls.frames + CountIn(met_calls.gestures, "fist")
          + CountIn(met_calls.gestures, "peace") < MaxMetricCalls
    /\ met_pc' = [met_pc EXCEPT ![th] = "frame_lock"]
    /\ met_arg' = [met_arg EXCEPT ![th] = [latency |-> latency, hands |-> hands]]
    /\ met_calls' = [met_calls EXCEPT !.frames = @ + 1, !.hands = @ + hands]
    /\ UNCHANGED <<met_lock, met_gesture_counts, met_frames_total, met_hands_total, met_rate,
                   met_hist_lock, met_hist, met_tmp>>
    /\ UNCHANGED metRest

\* "with self._lock:" of record_gesture and of record_frame
AcquireLock(th) ==
    /\ met_pc[th] \in {"gesture_lock", "frame_lock"}
    /\ LockFree(met_lock)
    /\ met_lock' = th
    /\ met_pc' = [met_pc EXCEPT ![th] = IF @ = "gesture_lock" THEN "gesture_read"
                                                                ELSE "frames_read"]
    /\ UNCHANGED <<met_gesture_counts, met_frames_total, met_hands_total, met_rate,
                   met_hist_lock, met_hist, met_arg, met_tmp, met_calls>>
    /\ UNCHANGED metRest

\* self._gesture_counts[name] += 1, self._frames_total += 1 and
\* self._hands_total += hands_detected: the read
ReadCounter(th) ==
    /\ met_pc[th] \in {"gesture_read", "frames_read", "hands_read"}
    /\ met_tmp' = [met_tmp EXCEPT ![th] =
                       IF met_pc[th] = "gesture_read"
                       THEN CountIn(met_gesture_counts, met_arg[th].name)
                       ELSE IF met_pc[th] = "frames_read" THEN met_frames_total
                       ELSE met_hands_total]
    /\ met_pc' = [met_pc EXCEPT ![th] = IF @ = "gesture_read" THEN "gesture_write"
                                        ELSE IF @ = "frames_read" THEN "frames_write"
                                        ELSE "hands_write"]
    /\ UNCHANGED <<met_lock, met_gesture_counts, met_frames_total, met_hands_total, met_rate,
                   met_hist_lock, met_hist, met_arg, met_calls>>
    /\ UNCHANGED metRest

\* record_gesture: the write of the counter, and the end of the with block
WriteGesture(th) ==
    /\ met_pc[th] = "gesture_write"
    /\ met_gesture_counts' = Put(met_gesture_counts, met_arg[th].name, met_tmp[th] + 1)
    /\ met_lock' = 0
    /\ met_pc' = [met_pc EXCEPT ![th] = "idle"]
    /\ met_arg' = [met_arg EXCEPT ![th] = <<>>]
    /\ met_tmp' = [met_tmp EXCEPT ![th] = 0]
    /\ UNCHANGED <<met_frames_total, met_hands_total, met_rate, met_hist_lock, met_hist,
                   met_calls>>
    /\ UNCHANGED metRest

\* record_frame: the write of _frames_total
WriteFrames(th) ==
    /\ met_pc[th] = "frames_write"
    /\ met_frames_total' = met_tmp[th] + 1
    /\ met_pc' = [met_pc EXCEPT ![th] = "hands_read"]
    /\ met_tmp' = [met_tmp EXCEPT ![th] = 0]
    /\ UNCHANGED <<met_lock, met_gesture_counts, met_hands_total, met_rate, met_hist_lock,
                   met_hist, met_arg, met_calls>>
    /\ UNCHANGED metRest

\* record_frame: the write of _hands_total, and the end of the with block
WriteHands(th) ==
    /\ met_pc[th] = "hands_write"
    /\ met_hands_total' = met_tmp[th] + met_arg[th].hands
    /\ met_lock' = 0
    /\ met_pc' = [met_pc EXCEPT ![th] = "observe_lock"]
    /\ met_tmp' = [met_tmp EXCEPT ![th] = 0]
    /\ UNCHANGED <<met_gesture_counts, met_frames_total, met_rate, met_hist_lock, met_hist,
                   met_arg, met_calls>>
    /\ UNCHANGED metRest

\* _Histogram.observe(value) on hist = [bucket_counts, count, sum]
Observed(hist, value) ==
    [bucket_counts |-> [i \in DOMAIN Buckets |->
                           IF value <= Buckets[i] THEN hist.bucket_counts[i] + 1
                           ELSE hist.bucket_counts[i]],
     count |-> hist.count + 1,
     sum |-> hist.sum + value]

\* _Histogram.observe: "with self._lock:"
AcquireHistLock(th) ==
    /\ met_pc[th] = "observe_lock"
    /\ LockFree(met_hist_lock)
    /\ met_hist_lock' = th
    /\ met_pc' = [met_pc EXCEPT ![th] = "observe_read"]
    /\ UNCHANGED <<met_lock, met_gesture_counts, met_frames_total, met_hands_total, met_rate,
                   met_hist, met_arg, met_tmp, met_calls>>
    /\ UNCHANGED metRest

\* _Histogram.observe: the read of self.count
ReadHist(th) ==
    /\ met_pc[th] = "observe_read"
    /\ met_tmp' = [met_tmp EXCEPT ![th] = met_hist.count]
    /\ met_pc' = [met_pc EXCEPT ![th] = "observe_write"]
    /\ UNCHANGED <<met_lock, met_gesture_counts, met_frames_total, met_hands_total, met_rate,
                   met_hist_lock, met_hist, met_arg, met_calls>>
    /\ UNCHANGED metRest

\* _Histogram.observe: the write of self.count, the sum and the buckets, and
\* the end of the with block
WriteHist(th) ==
    /\ met_pc[th] = "observe_write"
    /\ met_hist' = [Observed(met_hist, met_arg[th].latency) EXCEPT !.count = met_tmp[th] + 1]
    /\ met_hist_lock' = 0
    /\ met_pc' = [met_pc EXCEPT ![th] = "rate_read"]
    /\ met_tmp' = [met_tmp EXCEPT ![th] = 0]
    /\ UNCHANGED <<met_lock, met_gesture_counts, met_frames_total, met_hands_total, met_rate,
                   met_arg, met_calls>>
    /\ UNCHANGED metRest

\* record_frame: the read of self._hand_detection_rate, under no lock
ReadRate(th) ==
    /\ met_pc[th] = "rate_read"
    /\ met_tmp' = [met_tmp EXCEPT ![th] = met_rate]
    /\ met_pc' = [met_pc EXCEPT ![th] = "rate_write"]
    /\ UNCHANGED <<met_lock, met_gesture_counts, met_frames_total, met_hands_total, met_rate,
                   met_hist_lock, met_hist, met_arg, met_calls>>
    /\ UNCHANGED metRest

\* 0.95 * rate + 0.05 * (1.0 if hands_detected > 0 else 0.0), in thousandths
\* and rounded down
NextRate(rate, hands) == (95 * rate + 5 * (IF hands > 0 THEN 1000 ELSE 0)) \div 100

\* record_frame: the write of self._hand_detection_rate; the call returns
WriteRate(th) ==
    /\ met_pc[th] = "rate_write"
    /\ met_rate' = NextRate(met_tmp[th], met_arg[th].hands)
    /\ met_pc' = [met_pc EXCEPT ![th] = "idle"]
    /\ met_arg' = [met_arg EXCEPT ![th] = <<>>]
    /\ met_tmp' = [met_tmp EXCEPT ![th] = 0]
    /\ UNCHANGED <<met_lock, met_gesture_counts, met_frames_total, met_hands_total,
                   met_hist_lock, met_hist, met_calls>>
    /\ UNCHANGED metRest

-----------------------------------------------------------------------------
(* State machine of a TrajectoryTracker on its own *)

TrajHands == {0}

NoCall == [op |-> "none"]

\* the centroids a hand is seen at: where it was or one step further, from 0
\* when its path is empty
TrajPoints(hand_id) ==
    LET path == HistoryOf(traj_paths, hand_id)
    IN  IF path = <<>> THEN {0}
        ELSE {path[Len(path)].point, path[Len(path)].point + 1} \cap 0..MaxPoint

InitTrajectory ==
    /\ traj_last_match_time = <<>>
    /\ traj_call = NoCall
    /\ traj_emitted = <<>>
    /\ traj_templates = <<>>
    /\ traj_recording = <<>>
    /\ traj_recording_points = <<>>
    /\ rec_call = [op |-> "none", active |-> FALSE, since |-> 0]

\* "if self._recording is not None"
IsRecording(recording) == recording # <<>>

\* "not self._recording": None and the empty name are both false
NotRecording(recording) == recording = <<>> \/ recording[1] = ""

trajRest == <<trackerVars, pipeVars, seqVars, thrVars, bcVars, bimVars, cvVars, metVars, regVars,
              dtwVars,
              traj_templates, traj_recording, loop_last_gestures,
              loop_total_gestures, loop_broadcast, loop_suppressed, loop_calls, loop_hands,
              canvas_history, canvas_shake_positions, canvas_shake_cooldown, bi_history>>

\* TrajectoryTracker.update(hand_id, landmarks, now + dt)
TrajectoryUpdate(hand_id, point, dt, scored) ==
    /\ now + dt <= MaxTrajTime
    /\ now' = now + dt
    /\ \E tr \in {TrackerUpdated([paths |-> traj_paths, still_counts |-> traj_still_counts,
                                   last_match_time |-> traj_last_match_time],
                                  hand_id, point, now + dt, scored)} :
          /\ traj_paths' = tr.paths
          /\ traj_still_counts' = tr.still_counts
          /\ traj_last_match_time' = tr.last_match_time
          /\ traj_call' = [op |-> "update", hand_id |-> hand_id, tried |-> tr.tried,
                           events |-> tr.events, qualified |-> tr.qualified,
                           checked |-> tr.checked,
                           first |-> hand_id \notin DOMAIN traj_emitted]
          /\ traj_emitted' = IF tr.events # <<>>
                             THEN NoteEmission(traj_emitted, hand_id, now + dt)
                             ELSE traj_emitted
    /\ traj_recording_points' = IF IsRecording(traj_recording)
                                THEN Append(traj_recording_points, point)
                                ELSE traj_recording_points
    /\ rec_call' = [op |-> "update", active |-> rec_call.active,
                    since |-> IF rec_call.active THEN rec_call.since + 1 ELSE rec_call.since,
                    appended |-> IsRecording(traj_recording)]
    /\ UNCHANGED trajRest

\* TrajectoryTracker.clear(hand_id)
TrajectoryClear(hand_id) ==
    /\ \E tr \in {TrackerCleared([paths |-> traj_paths, still_counts |-> traj_still_counts,
                                   last_match_time |-> traj_last_match_time], hand_id)} :
          /\ traj_paths' = tr.paths
          /\ traj_still_counts' = tr.still_counts
          /\ traj_last_match_time' = tr.last_match_time
    /\ traj_call' = [op |-> "clear", hand_id |-> hand_id]
    /\ UNCHANGED <<now, traj_emitted, traj_recording_points, rec_call>>
    /\ UNCHANGED trajRest

\* TrajectoryTracker.clear()
TrajectoryClearAll ==
    /\ traj_paths' = <<>>
    /\ traj_still_counts' = <<>>
    /\ traj_call' = [op |-> "clear_all"]
    /\ UNCHANGED <<now, traj_last_match_time, traj_emitted, traj_recording_points, rec_call>>
    /\ UNCHANGED trajRest

\* the names given to start_recording
RecordingNames == {"", "custom"}

\* "len(self._recording_points) < 5"
MinRecorded == 5

\* TrajectoryTracker.start_recording(name)
StartRecording(name) ==
    /\ traj_recording' = <<name>>
    /\ traj_recording_points' = <<>>
    /\ rec_call' = [op |-> "start", active |-> TRUE, since |-> 0]
    /\ UNCHANGED traj_templates
    /\ UNCHANGED <<now, coreVars, bimVars, cvVars, metVars, regVars, dtwVars>>

\* TrajectoryTracker.stop_recording(): returned is <<>> for None and
\* <<template>> for a template
StopRecording ==
    /\ IF NotRecording(traj_recording) \/ Len(traj_recording_points) < MinRecorded
       THEN /\ traj_recording' = <<>>
            /\ rec_call' = [op |-> "stop", was |-> rec_call.active, active |-> FALSE,
                            since |-> rec_call.since, returned |-> <<>>,
                            before |-> traj_templates]
            /\ UNCHANGED <<traj_templates, traj_recording_points>>
       ELSE \E template \in {[name |-> traj_recording[1], points |-> traj_recording_points]} :
                /\ traj_templates' = Append(traj_templates, template)
                /\ traj_recording' = <<>>
                /\ traj_recording_points' = <<>>
                /\ rec_call' = [op |-> "stop", was |-> rec_call.active, active |-> FALSE,
                                since |-> rec_call.since, returned |-> <<template>>,
                                before |-> traj_templates]
    /\ UNCHANGED <<now, coreVars, bimVars, cvVars, metVars, regVars, dtwVars>>

-----------------------------------------------------------------------------
(* Dynamic time warping.  Points are integers on a line and the distance of *)
(* two points is the absolute difference, which adds up without rounding.   *)

\* float("inf")
Inf == -1

\* a + b and min(a, b, c) with float("inf")
PlusInf(a, b) == IF a = Inf \/ b = Inf THEN Inf ELSE a + b
MinInf(a, b) == IF a = Inf THEN b ELSE IF b = Inf THEN a ELSE Min(a, b)

\* a band that is open towards the start of t
BandStartOpen(i, window) == 1

\* "j_start = max(1, i - window)"
BandStart(i, window) == Max(1, i - window)

\* "j_end = min(m, i + window)"
BandEnd(i, m, window) == Min(m, i + window)

\* the two for loops of _dtw_distance_fast from cell (i, j) on; cost is the
\* matrix, of inf but for cost[0, 0] = 0.0 at first
RECURSIVE DtwFill(_, _, _, _, _, _)
DtwFill(cost, s, t, window, i, j) ==
    IF i > Len(s) THEN cost
    ELSE IF j > BandEnd(i, Len(t), window)
         THEN DtwFill(cost, s, t, window, i + 1, BandStart(i + 1, window))
         ELSE DtwFill([cost EXCEPT ![<<i, j>>] =
                          PlusInf(Abs(s[i] - t[j]),
                                  MinInf(cost[<<i - 1, j>>],
                                         MinInf(cost[<<i, j - 1>>], cost[<<i - 1, j - 1>>])))],
                      s, t, window, i, j + 1)

\* _dtw_distance_fast(s, t, window): inf, or cost[n, m] / (n + m) as the
\* fraction [cost, steps]
DtwDistanceFast(s, t, window) ==
    IF Len(s) = 0 \/ Len(t) = 0 THEN [cost |-> Inf, steps |-> 1]
    ELSE LET cost == DtwFill([c \in (0..Len(s)) \X (0..Len(t)) |->
                                 IF c = <<0, 0>> THEN 0 ELSE Inf],
                             s, t, window, 1, BandStart(1, window))
         IN  IF cost[<<Len(s), Len(t)>>] = Inf THEN [cost |-> Inf, steps |-> 1]
             ELSE [cost |-> cost[<<Len(s), Len(t)>>], steps |-> Len(s) + Len(t)]

\* the points and the windows of the calls
DtwPoints == {0, 1, 3}
DtwWindows == {1, 10}
DtwSequences == UNION {[1..n -> DtwPoints] : n \in 0..MaxDtwLen}

\* nothing computed yet
NoResult == [cost |-> Inf, steps |-> 0]

InitDtw ==
    /\ dtw_s = <<>>
    /\ dtw_t = <<>>
    /\ dtw_window = 10
    /\ dtw_forward = NoResult
    /\ dtw_backward = NoResult

\* _dtw_distance_fast(s, t, window) and _dtw_distance_fast(t, s, window) on
\* the sequences drawn
DtwCompare ==
    /\ dtw_forward = NoResult
    /\ dtw_forward' = DtwDistanceFast(dtw_s, dtw_t, dtw_window)
    /\ dtw_backward' = DtwDistanceFast(dtw_t, dtw_s, dtw_window)
    /\ UNCHANGED <<dtw_s, dtw_t, dtw_window>>
    /\ UNCHANGED <<now, coreVars, bimVars, cvVars, metVars, recVars, regVars>>

-----------------------------------------------------------------------------
(* A GestureRegistry on its own *)

\* the poses registered: two that ask for the same of different fingers, one
\* that every hand matches with some confidence, one that asks for the pinch
RegistryPoses == {
    [name |-> "thumb_out", fingers |-> <<"extended", "any", "any", "curled", "any">>,
     min_confidence |-> 500, constrained |-> FALSE],
    [name |-> "index_out", fingers |-> <<"any", "extended", "any", "curled", "any">>,
     min_confidence |-> 500, constrained |-> FALSE],
    [name |-> "closed", fingers |-> <<"curled", "curled", "any", "curled", "any">>,
     min_confidence |-> 0, constrained |-> FALSE],
    [name |-> "pinched", fingers |-> <<"extended", "extended", "any", "any", "any">>,
     min_confidence |-> 800, constrained |-> TRUE] }

\* the hands matched: thumb, index and ring finger out or not, pinching or
\* not, and a hand of NaN
RegistryHands ==
    {FiniteHand(0, ext, pinch) : ext \in SUBSET {1, 2, 4}, pinch \in BOOLEAN} \cup {NaNHand}

InitRegistry ==
    /\ reg_gestures = <<>>
    /\ reg_call = [op |-> "none"]

regRest == <<now, coreVars, bimVars, cvVars, metVars, recVars, dtwVars>>

\* GestureRegistry.register(gesture), of a pose under a name not yet used
RegistryRegister(gesture) ==
    /\ Len(reg_gestures) < MaxRegistered
    /\ \A i \in 1..Len(reg_gestures) : reg_gestures[i].name # gesture.name
    /\ reg_gestures' = Append(reg_gestures, gesture)
    /\ reg_call' = [op |-> "register"]
    /\ UNCHANGED regRest

\* FingerState(value) raises ValueError on any other value
FingerStates == {"extended", "curled", "any"}

\* the entries of the files loaded: a pose as it should be, one whose index
\* finger state is unknown, one whose constraint type is unknown
LoadEntries == {
    [name |-> "loaded", fingers |-> <<"any", "extended", "any", "curled", "any">>,
     min_confidence |-> 600, kind |-> "distance"],
    [name |-> "bad_finger", fingers |-> <<"any", "bogus", "any", "curled", "any">>,
     min_confidence |-> 600, kind |-> "none"],
    [name |-> "bad_constraint", fingers |-> <<"any", "extended", "any", "curled", "any">>,
     min_confidence |-> 600, kind |-> "bogus"] }

\* GestureDefinition.from_dict raises on this entry
FromDictRaises(entry) == \E f \in Fingers : entry.fingers[f] \notin FingerStates

\* GestureDefinition.from_dict(entry): constraints are taken as they are;
\* kind "none" stands for an entry without constraints
FromDict(entry) ==
    [name |-> entry.name, fingers |-> entry.fingers, min_confidence |-> entry.min_confidence,
     constrained |-> entry.kind # "none", kind |-> entry.kind]

\* the for loop of load_from_file from entry i on: [gestures, raised]
RECURSIVE LoadedFrom(_, _, _)
LoadedFrom(gestures, entries, i) ==
    IF i > Len(entries) THEN [gestures |-> gestures, raised |-> FALSE]
    ELSE IF FromDictRaises(entries[i]) THEN [gestures |-> gestures, raised |-> TRUE]
    ELSE LoadedFrom(Append(gestures, FromDict(entries[i])), entries, i + 1)

\* GestureRegistry.load_from_file(path), the file holding `entries`
RegistryLoadFromFile(entries) ==
    /\ Len(reg_gestures) + Len(entries) <= MaxRegistered
    /\ \E r \in {LoadedFrom(reg_gestures, entries, 1)} :
          /\ reg_gestures' = r.gestures
          /\ reg_call' = [op |-> "load", entries |-> entries, raised |-> r.raised]
    /\ UNCHANGED regRest

\* GestureRegistry.match(landmarks)
RegistryMatch(hand) ==
    /\ reg_call' = [op |-> "match", hand |-> hand,
                    result |-> RegistryMatchFrom(reg_gestures, hand, 1, NoMatch)]
    /\ UNCHANGED reg_gestures
    /\ UNCHANGED regRest

-----------------------------------------------------------------------------
(* State machine of capture_loop's broadcasts to the websocket clients.     *)
(* capture_loop is one asyncio task: it runs until it awaits, and goes on   *)
(* when what it awaits completes.  The websocket endpoints are other tasks  *)
(* that run while it is suspended.                                          *)

Clients == 1..MaxClients

InitBroadcast ==
    /\ bc_pc = "read"
    /\ bc_left = 0
    /\ bc_frames = 0
    /\ bc_clients = {}
    /\ bc_size = 0
    /\ bc_visited = {}
    /\ bc_cur = 0
    /\ bc_dead = {}
    /\ bc_mutated = FALSE
    /\ bc_stalled = {}

otherVars == <<now, trackerVars, pipeVars, seqVars, loopVars, thrVars, tjVars, soloVars>>

\* the other tasks run only while capture_loop is suspended in an await: in
\* asyncio.sleep between two frames, in a send, or for ever once it has ended
Suspended == bc_pc \in {"read", "send", "stopped"}

\* where capture_loop goes on after a broadcast, left messages still to go
AfterBroadcast(left) == IF left = 0 THEN "read" ELSE "emit"

\* one pass of the while loop: the frame is read and processed, and its n
\* messages are then broadcast one after the other
BcReadFrame(n) ==
    /\ bc_pc = "read"
    /\ bc_frames < MaxBcFrames
    /\ bc_frames' = bc_frames + 1
    /\ bc_left' = n
    /\ bc_pc' = AfterBroadcast(n)
    /\ UNCHANGED <<bc_clients, bc_size, bc_visited, bc_cur, bc_dead, bc_mutated, bc_stalled>>
    /\ UNCHANGED otherVars

\* broadcast(message) up to its first await: it returns at once when there is
\* no client, and otherwise awaits the send to the first client of the set
BcBroadcast ==
    /\ bc_pc = "emit"
    /\ IF bc_clients = {}
       THEN /\ bc_left' = bc_left - 1
            /\ bc_pc' = AfterBroadcast(bc_left - 1)
            /\ UNCHANGED <<bc_size, bc_visited, bc_cur, bc_dead, bc_mutated>>
       ELSE /\ bc_size' = Cardinality(bc_clients)
            /\ bc_visited' = {}
            /\ bc_dead' = {}
            /\ bc_mutated' = FALSE
            /\ \E ws \in bc_clients : bc_cur' = ws
            /\ bc_pc' = "send"
            /\ UNCHANGED bc_left
    /\ UNCHANGED <<bc_frames, bc_clients, bc_stalled>>
    /\ UNCHANGED otherVars

\* the for loop of broadcast goes on after a send: a set whose size changed
\* raises RuntimeError, which ends capture_loop; a set changed back to its
\* size is iterated in an order the interpreter does not define
BcIterate(visited, dead) ==
    /\ bc_visited' = visited
    /\ bc_dead' = dead
    /\ IF Cardinality(bc_clients) # bc_size
       THEN /\ bc_pc' = "stopped"
            /\ bc_cur' = 0
            /\ UNCHANGED <<bc_clients, bc_left>>
       ELSE \/ /\ \E ws \in bc_clients \ visited : bc_cur' = ws
               /\ bc_pc' = "send"
               /\ UNCHANGED <<bc_clients, bc_left>>
            \/ /\ bc_clients \ visited = {} \/ bc_mutated
               /\ bc_clients' = bc_clients \ dead
               /\ bc_cur' = 0
               /\ bc_left' = bc_left - 1
               /\ bc_pc' = AfterBroadcast(bc_left - 1)
    /\ UNCHANGED <<bc_frames, bc_size, bc_mutated>>

\* await ws.send_text(payload) completes: the peer is reading
BcSendDone ==
    /\ bc_pc = "send"
    /\ bc_cur \in bc_clients \ bc_stalled
    /\ BcIterate(bc_visited \cup {bc_cur}, bc_dead)
    /\ UNCHANGED bc_stalled
    /\ UNCHANGED otherVars

\* await ws.send_text(payload) raises: the connection is broken
BcSendRaises ==
    /\ bc_pc = "send"
    /\ BcIterate(bc_visited \cup {bc_cur}, bc_dead \cup {bc_cur})
    /\ bc_stalled' = bc_stalled \ {bc_cur}
    /\ UNCHANGED otherVars

\* websocket_endpoint: a client connects
BcConnect(ws) ==
    /\ Suspended
    /\ ws \notin bc_clients
    /\ bc_clients' = bc_clients \cup {ws}
    /\ bc_mutated' = (bc_mutated \/ bc_pc = "send")
    /\ UNCHANGED <<bc_pc, bc_left, bc_frames, bc_size, bc_visited, bc_cur, bc_dead, bc_stalled>>
    /\ UNCHANGED otherVars

\* websocket_endpoint: a client disconnects
BcDisconnect(ws) ==
    /\ Suspended
    /\ ws \in bc_clients
    /\ bc_clients' = bc_clients \ {ws}
    /\ bc_stalled' = bc_stalled \ {ws}
    /\ bc_mutated' = (bc_mutated \/ bc_pc = "send")
    /\ UNCHANGED <<bc_pc, bc_left, bc_frames, bc_size, bc_visited, bc_cur, bc_dead>>
    /\ UNCHANGED otherVars

\* the peer of a client stops reading, and the send buffer of its socket is full
BcStall(ws) ==
    /\ ws \in bc_clients \ bc_stalled
    /\ bc_stalled' = bc_stalled \cup {ws}
    /\ UNCHANGED <<bc_pc, bc_left, bc_frames, bc_clients, bc_size, bc_visited, bc_cur,
                   bc_dead, bc_mutated>>
    /\ UNCHANGED otherVars

\* the peer of a client reads again
BcDrain(ws) ==
    /\ ws \in bc_stalled
    /\ bc_stalled' = bc_stalled \ {ws}
    /\ UNCHANGED <<bc_pc, bc_left, bc_frames, bc_clients, bc_size, bc_visited, bc_cur,
                   bc_dead, bc_mutated>>
    /\ UNCHANGED otherVars

-----------------------------------------------------------------------------
(* State machine of capture_loop *)

InitLoop ==
    /\ loop_last_gestures = <<>>
    /\ loop_total_gestures = 0
    /\ loop_broadcast = <<>>
    /\ loop_suppressed = {}
    /\ loop_calls = <<>>
    /\ loop_hands = <<>>
    /\ traj_paths = <<>>
    /\ traj_still_counts = <<>>
    /\ canvas_history = <<>>
    /\ canvas_shake_positions = <<>>
    /\ canvas_shake_cooldown = 0
    /\ bi_history = <<>>

\* one turn of "while state.running" on a frame in which the detector finds
\* `hands`; detect and detect_normalized run on the same frame, so raw_hands
\* and hands are the same hands
LoopFrame(hands, dt) ==
    /\ now + dt <= MaxLoopTime
    /\ now' = now + dt
    /\ loop_hands' = hands
    /\ \E st \in {LoopHands(
                      [last_gestures |-> loop_last_gestures,
                       total_gestures |-> loop_total_gestures,
                       broadcast |-> <<>>, tracked_pairs |-> <<>>,
                       suppressed |-> {}, calls |-> <<>>,
                       det |-> [sequences |-> seq_sequences, history |-> seq_history,
                                last_triggered |-> seq_last_triggered,
                                last_match_duration |-> seq_last_match_duration],
                       seq_fed |-> seq_fed, seq_events |-> seq_events,
                       seq_emitted |-> seq_emitted,
                       traj |-> [paths |-> traj_paths, still_counts |-> traj_still_counts],
                       canvas |-> [history |-> canvas_history,
                                   shake_positions |-> canvas_shake_positions,
                                   shake_cooldown |-> canvas_shake_cooldown,
                                   commands |-> <<>>]],
                      hands, hands, 1, now + dt)} :
          /\ loop_last_gestures' = st.last_gestures
          /\ loop_total_gestures' = st.total_gestures
          /\ loop_broadcast' = st.broadcast
          /\ loop_suppressed' = st.suppressed
          /\ seq_history' = st.det.history
          /\ seq_last_triggered' = st.det.last_triggered
          /\ seq_last_match_duration' = st.det.last_match_duration
          /\ seq_fed' = st.seq_fed
          /\ seq_events' = st.seq_events
          /\ seq_emitted' = st.seq_emitted
          /\ traj_paths' = st.traj.paths
          /\ traj_still_counts' = st.traj.still_counts
          /\ canvas_history' = st.canvas.history
          /\ canvas_shake_positions' = st.canvas.shake_positions
          /\ canvas_shake_cooldown' = st.canvas.shake_cooldown
          /\ bi_history' = IF Len(st.tracked_pairs) >= 2
                           THEN BiUpdate(bi_history, st.tracked_pairs, now + dt)
                           ELSE bi_history
          /\ loop_calls' = IF Len(st.tracked_pairs) >= 2
                           THEN Append(st.calls, [sink |-> "bimanual",
                                                  hand |-> st.tracked_pairs])
                           ELSE st.calls
    /\ UNCHANGED <<trackerVars, pipeVars, auxVars, seq_sequences>>

vars == <<now, trackerVars, pipeVars, seqVars, loopVars, auxVars>>

Init ==
    /\ now = 0
    /\ InitTracker
    /\ InitPipeline
    /\ InitSequences
    /\ InitLoop
    /\ InitThresholds
    /\ InitBroadcast
    /\ InitTrajectory
    /\ InitBimanual
    /\ InitCanvas
    /\ InitMetrics
    /\ InitRegistry
    /\ InitDtw

NextTracker == \E hands \in HandLists(TrackerHands), dt \in Dts : Update(hands, dt)

SpecTracker == Init /\ [][NextTracker]_vars

NextPipeline ==
    \/ \E hands \in HandLists(PipelineHands), dt \in FrameDts : ProcessFrame(hands, dt)
    \/ \E cb \in {"returns", "raises"} : OnGesture(cb)
    \/ Reset

SpecPipeline == Init /\ [][NextPipeline]_vars

\* the pipeline watching one hand at full frame rate, no callback registered
NextHeldHand == \E hands \in HeldHandFrames : ProcessFrame(hands, 1)

SpecHeldHand == Init /\ [][NextHeldHand]_vars

NextHold ==
    \/ \E hand \in HoldHands : HoldFrame(hand)
    \/ \E hand \in HoldHands : StartHold(hand)

\* the next frame of the camera, a tick after the last
NextFrameComes == now < MaxHoldTime /\ now' = now + 1

\* the camera delivers frame after frame, capture_loop processing each
SpecHold == Init /\ [][NextHold]_vars /\ WF_now(NextFrameComes)

NextSequences ==
    \/ \E g \in SeqGestures, hand \in SeqHands, dt \in SeqDts : Feed(g, hand, dt)
    \/ \E seq \in ExtraSequences : Register(seq)
    \/ \E hand \in SeqHands : SeqResetHand(hand)
    \/ SeqResetAll

SpecSequences == Init /\ [][NextSequences]_vars

\* an AdaptiveThresholds built with any of the bases
InitAnyBase ==
    /\ now = 0
    /\ InitTracker
    /\ InitPipeline
    /\ InitSequences
    /\ InitLoop
    /\ thr_base \in ThresholdBases
    /\ thr_thresholds = <<>>
    /\ InitBroadcast
    /\ InitTrajectory
    /\ InitBimanual
    /\ InitCanvas
    /\ InitMetrics
    /\ InitRegistry
    /\ InitDtw

NextThresholds ==
    \E gesture \in ThresholdGestures, was_stable \in BOOLEAN : Record(gesture, was_stable)

SpecThresholds == InitAnyBase /\ [][NextThresholds]_vars

NextLoop == \E hands \in LoopFrames, dt \in LoopDts : LoopFrame(hands, dt)

SpecLoop == Init /\ [][NextLoop]_vars

NextBimanual ==
    \/ \E distance \in BiDistances, dt \in BiDts : BimanualUpdate(distance, dt)
    \/ \E dt \in BiDts : BimanualUpdateOneHand(dt)
    \/ BimanualReset

SpecBimanual == Init /\ [][NextBimanual]_vars

\* a canvas built with any of the sizes
InitAnyCanvas ==
    /\ now = 0
    /\ InitTracker
    /\ InitPipeline
    /\ InitSequences
    /\ InitLoop
    /\ InitThresholds
    /\ InitBroadcast
    /\ InitTrajectory
    /\ InitBimanual
    /\ \E max_history \in CanvasSizes : InitCanvasOfSize(max_history)
    /\ InitMetrics
    /\ InitRegistry
    /\ InitDtw

NextCanvas ==
    \/ \E gesture \in CanvasGestures, tip \in CanvasTips : CanvasFrame(gesture, tip)
    \/ CanvasClear

SpecCanvas == InitAnyCanvas /\ [][NextCanvas]_vars

NextShake == \E tip \in CanvasTips, dt \in ShakeDts : ShakeFrame(tip, dt)

SpecShake == Init /\ [][NextShake]_vars

NextMetrics ==
    \E th \in Threads :
        \/ \E name \in MetricGestures : RecordGesture(th, name)
        \/ \E latency \in Latencies, hands \in {0, 2} : RecordFrame(th, latency, hands)
        \/ AcquireLock(th)
        \/ ReadCounter(th)
        \/ WriteGesture(th)
        \/ WriteFrames(th)
        \/ WriteHands(th)
        \/ AcquireHistLock(th)
        \/ ReadHist(th)
        \/ WriteHist(th)
        \/ ReadRate(th)
        \/ WriteRate(th)

SpecMetrics == Init /\ [][NextMetrics]_vars

\* any two point sequences and any of the windows
InitAnyDtw ==
    /\ now = 0
    /\ InitTracker
    /\ InitPipeline
    /\ InitSequences
    /\ InitLoop
    /\ InitThresholds
    /\ InitBroadcast
    /\ InitTrajectory
    /\ InitBimanual
    /\ InitCanvas
    /\ InitMetrics
    /\ InitRegistry
    /\ dtw_s \in DtwSequences
    /\ dtw_t \in DtwSequences
    /\ dtw_window \in DtwWindows
    /\ dtw_forward = NoResult
    /\ dtw_backward = NoResult

NextDtw == DtwCompare

SpecDtw == InitAnyDtw /\ [][NextDtw]_vars

NextRegistry ==
    \/ \E gesture \in RegistryPoses : RegistryRegister(gesture)
    \/ \E first \in LoadEntries : RegistryLoadFromFile(<<first>>)
    \/ \E first \in LoadEntries, second \in LoadEntries :
          RegistryLoadFromFile(<<first, second>>)
    \/ \E hand \in RegistryHands : RegistryMatch(hand)

SpecRegistry == Init /\ [][NextRegistry]_vars

\* a tracker that records: a stop_recording ends what start_recording began
NextRecording ==
    \/ /\ now < MaxRecTime
       /\ \E point \in TrajPoints(0) : TrajectoryUpdate(0, point, 1, FALSE)
    \/ \E name \in RecordingNames : StartRecording(name)
    \/ StopRecording

SpecRecording == Init /\ [][NextRecording]_vars

NextTrajectory ==
    \/ \E hand_id \in TrajHands, scored \in BOOLEAN :
          \E point \in TrajPoints(hand_id) : TrajectoryUpdate(hand_id, point, 1, scored)
    \/ \E hand_id \in TrajHands : TrajectoryClear(hand_id)
    \/ TrajectoryClearAll

SpecTrajectory == Init /\ [][NextTrajectory]_vars

NextBroadcast ==
    \/ \E n \in 0..MaxMessages : BcReadFrame(n)
    \/ BcBroadcast
    \/ BcSendDone
    \/ BcSendRaises
    \/ \E ws \in Clients : BcConnect(ws)
    \/ \E ws \in Clients : BcDisconnect(ws)
    \/ \E ws \in Clients : BcStall(ws)
    \/ \E ws \in Clients : BcDrain(ws)

SpecBroadcast == Init /\ [][NextBroadcast]_vars

-----------------------------------------------------------------------------
(* Claims about the sequence detector, checked under SpecSequences *)

EventNames(events) == [i \in 1..Len(events) |-> events[i].sequence_name]

\* the last Len(seq.gestures) entries of the buffer are the template's poses, in
\* order, the first and the last of them at most max_duration apart
TailIs(history, seq) ==
    /\ Len(history) >= Len(seq.gestures)
    /\ \A i \in 1..Len(seq.gestures) :
          history[Len(history) - Len(seq.gestures) + i].gesture = seq.gestures[i]
    /\ history[Len(history)].time - history[Len(history) - Len(seq.gestures) + 1].time
          <= seq.max_duration

\* no event of that name on that hand in the last SeqCooldown ticks before t
CooldownElapsed(last_triggered, hand, name, t) ==
    \/ <<hand, name>> \notin DOMAIN last_triggered
    \/ t - last_triggered[<<hand, name>>] >= SeqCooldown

\* template k is due: it matches the tail with its cooldown elapsed, and no
\* template registered before it under the same name does
Due(seqs, k, history, last_triggered, hand, t) ==
    /\ TailIs(history, seqs[k])
    /\ CooldownElapsed(last_triggered, hand, seqs[k].name, t)
    /\ \A j \in 1..(k - 1) : seqs[j].name = seqs[k].name => ~TailIs(history, seqs[j])

RECURSIVE DueNames(_, _, _, _, _, _)
DueNames(seqs, k, history, last_triggered, hand, t) ==
    IF k > Len(seqs) THEN <<>>
    ELSE (IF Due(seqs, k, history, last_triggered, hand, t) THEN <<seqs[k].name>> ELSE <<>>)
         \o DueNames(seqs, k + 1, history, last_triggered, hand, t)

\* C2 as claimed: every call to feed returns at most one SequenceEvent.
C2_AtMostOneEvent == Len(seq_events) <= 1

\* C2 as amended: a feed that appends returns one SequenceEvent for every
\* template that matches the tail of the hand's buffer within its max_duration
\* with the cooldown of its (hand, name) elapsed, in registration order (of
\* several templates of one name, the first that matches); a feed that repeats
\* the tail pose returns none.
C2_OneEventPerMatchingTemplate ==
    [][now' > now =>
          EventNames(seq_events') =
              IF seq_fed'.appended
              THEN DueNames(seq_sequences', 1, seq_history'[seq_fed'.hand],
                            seq_last_triggered, seq_fed'.hand, now')
              ELSE <<>>]_vars

\* one feed has returned two events
C2_Witness ==
    /\ Len(seq_events) = 2
    /\ seq_events[1].sequence_name # seq_events[2].sequence_name

HasEvent(events, name) == \E i \in 1..Len(events) : events[i].sequence_name = name

ThreePoseTemplates(seqs) == {k \in 1..Len(seqs) : Len(seqs[k].gestures) = 3}

\* C3 as claimed: a feed emits the event of a template [A, B, C] if and only if,
\* after the call, the last three entries of the hand's buffer are A, B, C with
\* at most max_duration between the first and the last.
C3_FiresIffTailMatches ==
    seq_fed # NoFeed =>
        \A k \in ThreePoseTemplates(seq_sequences) :
            HasEvent(seq_events, seq_sequences[k].name)
                <=> TailIs(HistoryOf(seq_history, seq_fed.hand), seq_sequences[k])

\* C3 as amended: a feed emits the event of a template [A, B, C] if and only if
\* the call appended its pose to the buffer (the pose differs from the tail
\* before the call), the last three entries are then A, B, C with at most
\* max_duration between the first and the last, and no event of that template
\* was emitted for the hand in the last sequence cooldown (1.0 s).
C3_FiresIffAppendedMatchAndCooldownElapsed ==
    [][now' > now =>
          \A k \in ThreePoseTemplates(seq_sequences') :
              HasEvent(seq_events', seq_sequences'[k].name)
                  <=> /\ seq_fed'.appended
                      /\ TailIs(seq_history'[seq_fed'.hand], seq_sequences'[k])
                      /\ CooldownElapsed(seq_last_triggered, seq_fed'.hand,
                                         seq_sequences'[k].name, now')]_vars

\* the registered template [fist, peace, open_hand] has just fired, while the
\* wave template, which also ends in open_hand, has not
C3_Witness ==
    /\ HasEvent(seq_events, "abc")
    /\ ~HasEvent(seq_events, "wave")
    /\ seq_fed.appended

\* C14: any two SequenceEvents of one name on one hand, with no reset of the
\* whole detector between them, are at least the sequence cooldown (1.0 s) apart.
C14_SequenceCooldownBetweenAnyTwo ==
    \A key \in DOMAIN seq_emitted :
        seq_emitted[key][1] >= 0 =>
            seq_emitted[key][2] - seq_emitted[key][1] >= SeqCooldown

\* a template has just fired for the second time on a hand whose buffer was
\* fed its poses again
C14_Witness ==
    /\ seq_fed # NoFeed
    /\ \E i \in 1..Len(seq_events) :
          /\ <<seq_fed.hand, seq_events[i].sequence_name>> \in DOMAIN seq_emitted
          /\ seq_emitted[<<seq_fed.hand, seq_events[i].sequence_name>>][1] >= 0
          /\ seq_emitted[<<seq_fed.hand, seq_events[i].sequence_name>>][2] = now

NoAdjacentRepeat(history) ==
    \A i \in 1..(Len(history) - 1) : history[i].gesture # history[i + 1].gesture

\* C15: a feed whose pose equals the pose at the tail of the hand's buffer
\* returns no events and leaves the buffers, their timestamps and the cooldown
\* records as they were; no two adjacent entries of a buffer carry the same pose.
C15_RepeatedPoseChangesNothing ==
    [][/\ (/\ now' > now
           /\ seq_fed'.hand \in DOMAIN seq_history
           /\ seq_history[seq_fed'.hand] # <<>>
           /\ seq_history[seq_fed'.hand][Len(seq_history[seq_fed'.hand])].gesture
                 = seq_fed'.gesture)
          => /\ seq_events' = <<>>
             /\ seq_history' = seq_history
             /\ seq_last_triggered' = seq_last_triggered
       /\ \A hand \in DOMAIN seq_history' : NoAdjacentRepeat(seq_history'[hand])]_vars

\* the last feed repeated the tail pose of a buffer of several transitions, on
\* a hand with a cooldown record
C15_Witness ==
    /\ seq_fed # NoFeed
    /\ ~seq_fed.appended
    /\ Len(HistoryOf(seq_history, seq_fed.hand)) >= 2
    /\ seq_history[seq_fed.hand][Len(seq_history[seq_fed.hand])].gesture = seq_fed.gesture
    /\ \E name \in {"grab", "release", "peace_out"} :
          <<seq_fed.hand, name>> \in DOMAIN seq_last_triggered

-----------------------------------------------------------------------------
(* Claims about capture_loop, checked under SpecLoop *)

Called(calls, sink, hand_idx) ==
    \E i \in 1..Len(calls) : calls[i].sink = sink /\ calls[i].hand = hand_idx

\* C6: a hand whose gesture event the loop's cooldown suppresses is still fed,
\* in the same frame, to the sequence detector, the trajectory tracker and the
\* drawing canvas.
C6_SuppressedHandStillFed ==
    \A hand_idx \in loop_suppressed :
        /\ Called(loop_calls, "sequence", hand_idx)
        /\ Called(loop_calls, "trajectory", hand_idx)
        /\ Called(loop_calls, "canvas", hand_idx)

\* C16: within a frame the gesture event of a hand is broadcast before any
\* sequence event produced by feeding that gesture.
C16_GestureBeforeItsSequences ==
    \A j \in 1..Len(loop_broadcast) :
        loop_broadcast[j].type = "sequence" =>
            \E i \in 1..(j - 1) :
                /\ loop_broadcast[i].type = "gesture"
                /\ loop_broadcast[i].hand_index = loop_broadcast[j].hand_index
                /\ loop_broadcast[i].name
                      = loop_broadcast[j].gestures[Len(loop_broadcast[j].gestures)]

\* a frame of two hands in which the second hand completed a sequence
C16_Witness ==
    \E j \in 1..Len(loop_broadcast) :
        /\ loop_broadcast[j].type = "sequence"
        /\ loop_broadcast[j].hand_index = 1
        /\ \E i \in 1..(j - 1) : loop_broadcast[i].hand_index = 0

BimanualCalls(calls) == {i \in 1..Len(calls) : calls[i].sink = "bimanual"}

\* C17: in every frame in which at least two hands are detected, the bimanual
\* detector is updated exactly once, with a pair of those hands, after the
\* per-hand processing of all hands of the frame.
C17_BimanualOncePerTwoHandFrame ==
    Len(loop_hands) >= 2 =>
        /\ BimanualCalls(loop_calls) = {Len(loop_calls)}
        /\ Len(loop_calls[Len(loop_calls)].hand) >= 2
        /\ \A k \in 1..2 : loop_calls[Len(loop_calls)].hand[k] \in 0..(Len(loop_hands) - 1)
        /\ loop_calls[Len(loop_calls)].hand[1] # loop_calls[Len(loop_calls)].hand[2]
        /\ bi_history # <<>> /\ bi_history[Len(bi_history)] = now

\* a frame of two hands, both stopped by the loop's cooldown, after which the
\* bimanual detector was updated
C17_Witness ==
    /\ Len(loop_hands) = 2
    /\ loop_suppressed = {0, 1}
    /\ BimanualCalls(loop_calls) # {}

-----------------------------------------------------------------------------
(* Claims about the pipeline *)

\* C1 (SpecHeldHand): any two GestureEvents with the same (hand_id, gesture),
\* consecutive or not, have timestamps at least cooldown_seconds apart.
C1_CooldownBetweenAnyTwo ==
    \A key \in DOMAIN pipe_emitted :
        pipe_emitted[key][1] >= 0 =>
            pipe_emitted[key][2] - pipe_emitted[key][1] >= CooldownSeconds

MalformedFrame(hands) == \E i \in 1..Len(hands) : ~hands[i].finite

\* C11 (SpecHeldHand): the smoother returns a pose P for a hand only if P occurs
\* more than N/2 times in the hand's window and the window holds at least N/2
\* entries, N the configured smoothing_window; otherwise it returns none.
C11_SmoothedOnlyOnMajorityOfN ==
    \A hand_id \in DOMAIN pipe_smoothed :
        pipe_smoothed[hand_id] # "none" =>
            /\ 2 * CountOf(pipe_history[hand_id], pipe_smoothed[hand_id]) > SmoothingWindow
            /\ 2 * Len(pipe_history[hand_id]) >= SmoothingWindow

\* C12 (SpecHeldHand): whenever a hand's window is full (N entries) and one pose
\* P occupies more than N/2 of them, the smoothed pose for that hand is P.
C12_FullWindowMajorityWins ==
    \A hand_id \in DOMAIN pipe_smoothed :
        \A P \in GestureNames :
            (/\ Len(pipe_history[hand_id]) = SmoothingWindow
             /\ 2 * CountOf(pipe_history[hand_id], P) > SmoothingWindow)
                => pipe_smoothed[hand_id] = P

\* a full window in which the pose seen first holds two places and the other
\* three, and the smoother has returned the other
C12_Witness ==
    \E hand_id \in DOMAIN pipe_smoothed :
        /\ Len(pipe_history[hand_id]) = SmoothingWindow
        /\ CountOf(pipe_history[hand_id], pipe_history[hand_id][1]) = 2
        /\ pipe_smoothed[hand_id] # "none"
        /\ pipe_smoothed[hand_id] # pipe_history[hand_id][1]

\* C13 (SpecThresholds): after any sequence of record calls, the threshold
\* get_threshold returns for any pose lies within [min_threshold, max_threshold].
C13_ThresholdsWithinClamps ==
    thr_thresholds # <<>> =>
        \A gesture \in GestureNames :
            /\ GetThresholdFrom(thr_thresholds, gesture, thr_base) >= MinThreshold
            /\ GetThresholdFrom(thr_thresholds, gesture, thr_base) <= MaxThreshold

\* C4 (SpecPipeline): a frame holding a malformed hand is dropped: no event is
\* emitted and tracker tracks and next id, smoothing windows, cooldown records
\* and adaptive thresholds are the same after the frame as before it.
C4_MalformedFrameDropped ==
    [][(pipe_total_frames' = pipe_total_frames + 1 /\ MalformedFrame(trk_in')) =>
          /\ pipe_events' = <<>>
          /\ trk_tracked' = trk_tracked
          /\ trk_next_id' = trk_next_id
          /\ pipe_history' = pipe_history
          /\ pipe_last_triggered' = pipe_last_triggered
          /\ pipe_thresholds' = pipe_thresholds]_vars

\* C5 (SpecPipeline): process_frame never raises to its caller, whatever the
\* registered callbacks do.
C5_ProcessFrameNeverRaises == pipe_result = "returned"

\* C10 (SpecPipeline): the hand ids holding a smoothing window or a cooldown
\* record are ids of active tracks of the tracker.
C10_HandStateCleaned ==
    (DOMAIN pipe_history \cup DOMAIN pipe_last_triggered) \subseteq DOMAIN trk_tracked

\* frames enough for the window to fill with the pose and for a cooldown to
\* run out
HoldFrames == SmoothingWindow + CooldownSeconds

\* C34 (SpecHold): the adaptive threshold cannot lock a pose out for good:
\* from any reachable state, when a tracked hand shows the same pose on every
\* following frame with a confidence that is at least the base threshold, an
\* event for the pose is eventually emitted.  (Holds that begin too late for
\* HoldFrames frames to follow are left aside.)
C34_HeldPoseEventuallyEmits ==
    [](( /\ pipe_hold.active
         /\ pipe_hold.frames = 0
         /\ now + HoldFrames <= MaxHoldTime)
           => <>(pipe_hold.active /\ pipe_hold.emitted))

\* C36 (SpecPipeline): after reset() the pipeline yields, on any frames,
\* the events a freshly constructed pipeline yields on the same frames: the
\* same gestures for the same hand ids.
C36_ResetAsFresh ==
    (pipe_fresh.active /\ pipe_fresh.fed) => pipe_events = pipe_fresh.events

-----------------------------------------------------------------------------
(* Claims about the tracker, checked under SpecTracker *)

\* C7: HandTracker.update returns its pairs in the order of the input
\* detections: output[i] carries the landmarks of hands[i].
C7_OutputInDetectionOrder ==
    /\ Len(trk_out) = Len(trk_in)
    /\ \A i \in 1..Len(trk_in) : trk_out[i].lm = trk_in[i]

\* C8: hand ids are never reused: every freshly assigned id is strictly greater
\* than every id assigned before it.
C8_IdsNeverReused ==
    \A i, j \in 1..Len(trk_issued) : i < j => trk_issued[i] < trk_issued[j]

\* an id was retired by the timeout and the last update assigned a fresh one
C8_Witness ==
    /\ \E i \in 1..Len(trk_issued) : trk_issued[i] \notin DOMAIN trk_tracked
    /\ \E k \in 1..Len(trk_out) :
          /\ trk_out[k].id = trk_issued[Len(trk_issued)]
          /\ trk_out[k].id > 0
          /\ \A hid \in DOMAIN trk_tracked : hid >= trk_out[k].id

\* C9: after every update, every track still held satisfies
\* now - last_seen <= timeout.
C9_TracksWithinTimeout ==
    \A hid \in DOMAIN trk_tracked : now - trk_tracked[hid].last_seen <= TrackerTimeout

\* one track has just been pruned while another, unseen for exactly the timeout,
\* is kept
C9_Witness ==
    /\ \E hid \in DOMAIN trk_tracked : now - trk_tracked[hid].last_seen = TrackerTimeout
    /\ \E i \in 1..Len(trk_issued) : trk_issued[i] \notin DOMAIN trk_tracked

\* detection d of `hands` and track k of `trk` are closer to each other than
\* any other detection and track are, and within max_distance
UniqueClosest(hands, trk, d, k) ==
    /\ Dist(hands[d], trk[k].landmarks) < MaxDistance
    /\ \A e \in 1..Len(hands), j \in DOMAIN trk :
          <<e, j>> # <<d, k>> =>
              Dist(hands[d], trk[k].landmarks) < Dist(hands[e], trk[j].landmarks)

\* C33: update pairs detections and tracks closest-first: the detection of
\* the unique closest (detection, track) pair of a frame, within
\* max_distance, receives the id of that track, wherever it stands in the
\* input list.
C33_ClosestPairMatched ==
    [][\A d \in 1..Len(trk_in'), k \in DOMAIN PruneStale(trk_tracked, now') :
          UniqueClosest(trk_in', PruneStale(trk_tracked, now'), d, k)
              => \E i \in 1..Len(trk_out') :
                    trk_out'[i].id = k /\ trk_out'[i].lm = trk_in'[d]]_vars

-----------------------------------------------------------------------------
(* Claims about the bimanual detector *)

\* the last update saw the hands within clap_distance, with a ring of at
\* least 5 states and a convergence faster than clap_velocity against the
\* earlier state, and no clap was emitted in the 1.0 s before it
ClapDue ==
    /\ bim_call.op = "update"
    /\ bim_call.distance <= ClapDistance
    /\ Len(bim_history) >= ClapRing
    /\ now - bim_history[Len(bim_history) - ClapRing + 1].time > 0
    /\ ConvergesFast(bim_history[Len(bim_history) - ClapRing + 1], bim_call.distance, now)
    /\ bim_call.last_clap = -1 \/ now - bim_call.last_clap >= ClapCooldown

ClapEmitted == \E i \in 1..Len(bim_call.events) : bim_call.events[i] = "clap"

\* C21: update emits a clap whenever the hands are within clap_distance, the
\* ring holds 5 states, they converged faster than clap_velocity and no clap
\* was emitted in the preceding 1.0 s, also on a detector that never clapped
\* and whatever the timestamps.
C21_ClapWheneverDue == ClapDue => ClapEmitted

\* C22: two pinch_zoom events of one detector are at least the pinch_zoom
\* cooldown apart.
C22_ZoomCooldownBetweenAnyTwo ==
    "pinch_zoom" \in DOMAIN bim_emitted /\ bim_emitted["pinch_zoom"][1] >= 0
        => bim_emitted["pinch_zoom"][2] - bim_emitted["pinch_zoom"][1] >= ZoomCooldown

\* the last update evaluated a clap: _detect_clap read an entry of the ring
ClapEvaluated == bim_call.op = "update" /\ bim_call.clap_prev # <<>>

\* C39: clap detection compares the current frame with the state recorded 5
\* frames earlier: when a clap is evaluated at frame n, prev_distance and the
\* time difference are taken from the ring entry of frame n-5.  (The ring ends
\* with the entry of frame n, so that of frame n-5 is 5 places before it.)
C39_ClapComparesFiveFramesEarlier ==
    ClapEvaluated /\ Len(bim_history) > ClapRing
        => bim_call.clap_prev[1] = bim_history[Len(bim_history) - ClapRing]

-----------------------------------------------------------------------------
(* Claims about the recording of trajectories *)

\* stop_recording was called on a tracker that start_recording had put in
\* recording mode
RecordingStopped == rec_call.op = "stop" /\ rec_call.was

\* C29: stop_recording returns and registers exactly one new template when
\* at least 5 points were captured since start_recording, and returns none
\* and registers nothing when fewer were; in both cases recording mode ends,
\* and an update after it appends nothing to a recording.
C29_StopRecordingRegistersOneOrNone ==
    /\ RecordingStopped =>
          /\ IF rec_call.since >= MinRecorded
             THEN /\ rec_call.returned # <<>>
                  /\ traj_templates = rec_call.before \o rec_call.returned
             ELSE /\ rec_call.returned = <<>>
                  /\ traj_templates = rec_call.before
          /\ ~IsRecording(traj_recording)
    /\ (rec_call.op = "update" /\ ~rec_call.active) => ~rec_call.appended

-----------------------------------------------------------------------------
(* Claims about the registry of poses *)

\* the poses of the registry that the hand of the last match qualifies for
Qualifying ==
    {i \in 1..Len(reg_gestures) :
        MatchConfidence(reg_gestures[i], reg_call.hand) >= reg_gestures[i].min_confidence}

ConfidenceOf(i) == MatchConfidence(reg_gestures[i], reg_call.hand)

\* C30: match returns, among the registered poses whose confidence is at
\* least their own min_confidence, the first-registered pose of maximal
\* confidence, and none exactly when no pose qualifies.
C30_FirstOfMaximalConfidence ==
    reg_call.op = "match" =>
        IF Qualifying = {}
        THEN reg_call.result = NoMatch
        ELSE \E i \in Qualifying :
                /\ \A j \in Qualifying : ConfidenceOf(j) <= ConfidenceOf(i)
                /\ \A j \in Qualifying : j < i => ConfidenceOf(j) < ConfidenceOf(i)
                /\ reg_call.result = [name |-> reg_gestures[i].name,
                                      confidence |-> ConfidenceOf(i)]

\* a match on a registry of three poses the hand qualifies for, the first of
\* them less confident than the two after it, which are as confident as each
\* other; the second is returned
C30_Witness ==
    /\ reg_call.op = "match"
    /\ Len(reg_gestures) = 3
    /\ Qualifying = {1, 2, 3}
    /\ ConfidenceOf(1) < ConfidenceOf(2)
    /\ ConfidenceOf(2) = ConfidenceOf(3)
    /\ reg_call.result.name = reg_gestures[2].name

\* every finger state and the constraint type of a pose are known values
KnownValues(g) ==
    /\ \A f \in Fingers : g.fingers[f] \in FingerStates
    /\ "kind" \in DOMAIN g => g.kind \in {"distance", "angle", "none"}

\* C31: loading a pose definition whose finger state or constraint type is
\* not a known value fails with an error at load time, and such a definition
\* is never registered, so it never takes part in matching.
C31_UnknownValuesFailAtLoad ==
    /\ reg_call.op = "load" =>
          ((\E i \in 1..Len(reg_call.entries) : ~KnownValues(reg_call.entries[i]))
              => reg_call.raised)
    /\ \A i \in 1..Len(reg_gestures) : KnownValues(reg_gestures[i])

-----------------------------------------------------------------------------
(* Claims about dynamic time warping *)

\* C32: the banded DTW cost is symmetric: dtw(s, t) = dtw(t, s) for point
\* sequences of any lengths, also lengths that differ by more than the window.
C32_DtwSymmetric == dtw_forward = dtw_backward

\* sequences whose lengths differ by more than the window, and sequences of
\* different lengths that the band lets through at a cost above 0
C32_Witness ==
    \/ /\ Len(dtw_s) > 0
       /\ Len(dtw_t) - Len(dtw_s) > dtw_window
       /\ dtw_forward = [cost |-> Inf, steps |-> 1]
    \/ /\ Len(dtw_s) = 2
       /\ Len(dtw_t) = 3
       /\ dtw_forward.cost > 0
       /\ dtw_window = 1

-----------------------------------------------------------------------------
(* Claims about the metrics *)

\* _Histogram.render: the values of the bucket lines, le="+Inf" last
RenderedBuckets(hist) ==
    [i \in 1..(Len(Buckets) + 1) |->
        IF i <= Len(Buckets) THEN SumOf(SubSeq(hist.bucket_counts, 1, i)) ELSE hist.count]

\* C27: in the rendered histogram the bucket values are non-decreasing in le,
\* up to and including le="+Inf", whose value is the observation count.
\* (render takes the histogram's lock, so it reads no half-made observation.)
C27_RenderedBucketsNonDecreasing ==
    met_hist_lock = 0 =>
        \A i \in 1..Len(Buckets) :
            RenderedBuckets(met_hist)[i] <= RenderedBuckets(met_hist)[i + 1]

AllReturned == \A th \in Threads : met_pc[th] = "idle"

\* C28: once all the concurrent calls have returned no update is lost:
\* frames_total and the histogram count are the number of record_frame
\* calls, hands_total the sum of their hands_detected, and each gesture
\* counter the number of record_gesture calls of its name.
C28_NoUpdateLost ==
    AllReturned =>
        /\ met_frames_total = met_calls.frames
        /\ met_hands_total = met_calls.hands
        /\ met_hist.count = met_calls.frames
        /\ \A name \in MetricGestures :
              CountIn(met_gesture_counts, name) = CountIn(met_calls.gestures, name)

\* all calls have returned, among them two record_frame calls and a
\* record_gesture call
C28_Witness ==
    /\ AllReturned
    /\ met_calls.frames = 2
    /\ met_calls.hands > 0
    /\ met_calls.gestures # <<>>

-----------------------------------------------------------------------------
(* Claims about the drawing canvas *)

\* what a client shows that starts empty and applies get_full_state()
Replayed == ApplyAll({}, GetFullState(cv_history))

\* C23: after any updates and clears, the commands of get_full_state() applied
\* to an empty canvas show what a client shows that applied every command as
\* it was emitted.
C23_ReplayShowsWhatWasDrawn == Replayed = cv_live

\* C24: after every update, command_count is at most max_history.
C24_HistoryBounded == cv_call.op = "update" => Len(cv_history) <= cv_max_history

\* C25: after update emitted a clear at time t, no update before t + 2.0
\* emits another.  (Time does not run backwards, so the last two are the
\* closest.)
C25_ShakeClearsRespectCooldown ==
    cv_clears[1] >= 0 => cv_clears[2] - cv_clears[1] >= ShakePause

\* a second shake has just cleared the canvas, the moment the cooldown ended
C25_Witness ==
    /\ cv_call.op = "update"
    /\ HasType(cv_call.commands, "clear")
    /\ cv_clears[1] >= 0
    /\ cv_clears[2] = now
    /\ now - cv_clears[1] = ShakePause

\* C26: after clear(), get_full_state() is the single record {type: clear},
\* and the stroke is ended: the next frame of a drawing pose emits no line.
C26_ClearLeavesOneClearAndNoStroke ==
    /\ cv_call.op = "clear" =>
          /\ GetFullState(cv_history) = <<[type |-> "clear"]>>
          /\ cv_last_point = NoPoint
    /\ (cv_call.op = "update" /\ cv_call.after = "clear"
            /\ cv_call.gesture \in DrawGestures) => ~HasType(cv_call.commands, "line")

\* a drawing pose right after a clear() that wiped a line in the middle of a
\* stroke (wiped), the canvas holding the point the next line starts from
C26_Witness ==
    /\ cv_call.op = "update"
    /\ cv_call.after = "clear"
    /\ cv_call.wiped
    /\ cv_call.gesture \in DrawGestures
    /\ cv_last_point # NoPoint
    /\ cv_live = {}

\* no stroke is active: _last_point is None
NoStroke == cv_last_point = NoPoint

\* C40: the smoothing window never spans a stroke break: whenever no stroke is
\* active (the last point unset after a fist, open_hand, other or none frame,
\* or after clear()), the smoothing window is empty, so the first point of the
\* next stroke is the fingertip position of the first drawing frame after the
\* break.
C40_SmoothingWindowEmptyWithoutStroke == NoStroke => cv_point_buffer = <<>>

-----------------------------------------------------------------------------
(* Claims about the trajectory tracker *)

\* the last call was an update that scored the templates against the path
MatchingRan == traj_call.op = "update" /\ traj_call.tried

\* C19: whenever update runs template matching on a hand's path, that path is
\* empty when update returns, whether or not a template reached its min_score.
C19_PathEmptyAfterMatching ==
    MatchingRan => HistoryOf(traj_paths, traj_call.hand_id) = <<>>

\* C20: across any interleaving of update and clear calls, two TrajectoryEvents
\* of one hand are more than the cooldown apart.  (The timestamps of a hand's
\* events increase, so the last two are the closest.)
C20_TrajectoryCooldownBetweenAnyTwo ==
    \A hand_id \in DOMAIN traj_emitted :
        traj_emitted[hand_id][1] >= 0 =>
            traj_emitted[hand_id][2] - traj_emitted[hand_id][1] > TrajCooldown

\* a hand's second event has just been emitted, as soon after the first as
\* the cooldown lets it
C20_Witness ==
    /\ traj_call.op = "update"
    /\ traj_call.events # <<>>
    /\ traj_emitted[traj_call.hand_id][1] >= 0
    /\ traj_emitted[traj_call.hand_id][2] = now
    /\ now - traj_emitted[traj_call.hand_id][1] = TrajCooldown + 1

-----------------------------------------------------------------------------
(* Claims about SequenceDetector.reset, checked under SpecSequences *)

\* the cooldown records of a hand: the keys of _last_triggered that name it
TriggeredOf(last_triggered, hand) == {key \in DOMAIN last_triggered : key[1] = hand}

\* C37: reset(hand) clears all state of that hand, its transition buffer and
\* its sequence cooldown records, and leaves the buffers and the cooldown
\* records of every other hand unchanged; reset() without a hand clears both
\* for all hands.
C37_ResetClearsHandState ==
    [][/\ \A hand \in SeqHands :
             SeqResetHand(hand) =>
                 /\ hand \notin DOMAIN seq_history'
                 /\ TriggeredOf(seq_last_triggered', hand) = {}
                 /\ \A other \in DOMAIN seq_history \ {hand} :
                        /\ other \in DOMAIN seq_history'
                        /\ seq_history'[other] = seq_history[other]
                 /\ \A key \in DOMAIN seq_last_triggered \ TriggeredOf(seq_last_triggered, hand) :
                        /\ key \in DOMAIN seq_last_triggered'
                        /\ seq_last_triggered'[key] = seq_last_triggered[key]
       /\ SeqResetAll => seq_history' = <<>> /\ seq_last_triggered' = <<>>]_vars

\* the last call was an update that found the hand still for still_frames
\* frames with more than 10 points on its path, the hand never having
\* produced a TrajectoryEvent before
FirstStillPhase == traj_call.op = "update" /\ traj_call.qualified /\ traj_call.first

\* C38: the trajectory cooldown only separates matches: a hand that has never
\* produced a TrajectoryEvent is not in cooldown, so its first qualifying
\* still-phase runs template matching at any timestamp, timestamps <= 1.0
\* included.
C38_NeverMatchedNotInCooldown == FirstStillPhase => traj_call.checked

-----------------------------------------------------------------------------
(* Claims about capture_loop's broadcasts *)

\* capture_loop is suspended in a send to a client whose peer does not read
WaitsOnStalled == bc_pc = "send" /\ bc_cur \in bc_stalled

\* C18: frame processing never waits for a subscriber: capture_loop is never
\* held, with frames still to read, by the send to a subscriber that stalls.
C18_LoopNeverWaitsForSubscriber == ~WaitsOnStalled

\* the for loop of broadcast found state.clients with another size than it
\* began with: RuntimeError left broadcast and ended capture_loop
BroadcastFailed == bc_pc = "stopped"

\* C35: a client that connects or disconnects while a broadcast is in progress
\* never makes the broadcast fail: the broadcast completes for the remaining
\* subscribers and capture_loop keeps running.
C35_BroadcastSurvivesClientChange == ~BroadcastFailed

====
